---- MODULE Spec2Model ----
(***************************************************************************)
(* The Gold Trader's Edge: signal deduplication, the real-time worker      *)
(* pipeline and the backtest simulator, as state machines.                 *)
(*                                                                         *)
(* Time is counted in whole hours.  Prices of the real-time path are       *)
(* integers in thousandths of a dollar (2650.504 is 2650504), so that the  *)
(* rounding to two decimals done by SignalFingerprint.to_hash changes      *)
(* something.  The host clock is taken to be UTC, so datetime.now() and    *)
(* datetime.now(timezone.utc) read the same hour.                          *)
(***************************************************************************)
EXTENDS Integers, Sequences, FiniteSets, TLC

VARIABLES
    now,             \* the wall clock, in hours
    db_rows,         \* the signals table of the persistence store
    constructed,     \* SignalDeduplicator.__init__ has run
    built_at,        \* the hour it ran
    load_outcome,    \* how _load_recent_signals_from_db ended
    recent_signals,  \* SignalDeduplicator.recent_signals: hash -> fingerprint
    wpc,             \* per worker: position inside is_duplicate
    wsig,            \* per worker: the signal passed to is_duplicate
    wfiltered,       \* per worker: the dict built by _cleanup_old_signals
    wcur,            \* per worker: the dict it iterated is still the cache
    wdirty,          \* per worker: that dict grew after the iteration began
    accepted,        \* history: the calls that returned False (unique)
    last_call,       \* history: the call that returned last
    ncalls,          \* history: number of calls that returned
    owner_state,     \* per worker or service: "new", "started" or "starting", "running", "failed", "stopped"
    gen_made,        \* its RealtimeSignalGenerator exists
    feed_connected,  \* data_feed.is_connected
    subscribers,     \* generator.subscribers, in the order they were added
    val_recent,      \* validator.recent_signals
    candles_processed, \* generator.total_candles_processed
    signals_generated, \* generator.total_signals_generated
    nruns,           \* history: number of run_once calls, all generators
    validated,       \* history: the signals validate returned
    delivered,       \* history: the calls subscriber(signal)
    last_run,        \* history: the last run_once that returned or raised
    svc,             \* SignalService.start before its loop: its step, and the enable flags
    run,             \* per generator: the step inside run_once, and what it holds
    bt_pc,           \* BacktestEngine: "idle", "loop" (inside run), "done", "error"
    bt_config,       \* commission and slippage given to __init__, max_open_trades given to run
    bt_df,           \* the candles run iterates over, after the date filter
    bt_i,            \* number of candles processed by the loop of run
    balance,         \* BacktestEngine.balance, an exact fraction <<n, d>>
    trades,          \* BacktestEngine.trades; trade id k is trades[k]
    open_trades,     \* BacktestEngine.open_trades, a list of trade ids
    trade_counter,   \* BacktestEngine.trade_counter
    equity_curve,    \* BacktestEngine.equity_curve
    strategy_calls,  \* history: the candle times at which strategy_func was called
    close_log,       \* history: balance before and after each close
    result,          \* the BacktestResult returned by run
    bt_dates,        \* start_date and end_date given to run; 0 stands for None
    rerun,           \* the caller that runs one engine twice: what it keeps
    last_direct,     \* history: the last direct call of a method of the engine
    loop,            \* the loop of start() of a generator or of the service, by step
    pub,             \* one call of _publish_signal: the subscribers and what came of it
    val,             \* a SignalValidator of its own, with its clock and its last call
    strat,           \* a GoldStrategy: rules_enabled and the last call of evaluate
    perf,            \* a BacktestResult given to calculate_metrics, and the store's statistics
    mstop,           \* MultiTimeframeService.stop: whether it returned, and what it found
    dsub,            \* a DeduplicationSubscriber: its wrapped subscribers and its last call
    ta               \* a TechnicalAnalysis object: its DataFrame and its last answer

dedupVars == <<now, db_rows, constructed, built_at, load_outcome, recent_signals,
               wpc, wsig, wfiltered, wcur, wdirty, accepted, last_call, ncalls>>

pipeVars == <<owner_state, gen_made, feed_connected, subscribers, val_recent,
              candles_processed, signals_generated, nruns, validated, delivered,
              last_run, svc, run>>

btVars == <<bt_pc, bt_config, bt_df, bt_i, balance, trades, open_trades,
            trade_counter, equity_curve, strategy_calls, close_log, result,
            bt_dates, rerun, last_direct>>

(* the state of the components that are exercised on their own *)
unitVars == <<pub, val, strat, perf>>

(* what the deduplicator's steps leave alone *)
notDedupVars == <<pipeVars, btVars, loop, unitVars, mstop, dsub, ta>>

(* what the pipeline's steps leave alone *)
notPipeVars == <<db_rows, constructed, built_at, load_outcome, recent_signals,
                 wpc, wsig, wfiltered, wcur, wdirty, accepted, last_call, ncalls,
                 btVars, loop, unitVars, mstop, dsub, ta>>

(* what the backtest's steps leave alone *)
notBtVars == <<dedupVars, pipeVars, loop, unitVars, mstop, dsub, ta>>

(* what the steps of the loop of start() leave alone *)
notLoopVars == <<dedupVars, pipeVars, btVars, unitVars, mstop, dsub, ta>>

(* what a step of one of the components exercised on its own leaves alone *)
restVars == <<dedupVars, pipeVars, btVars, loop, mstop, dsub, ta>>

vars == <<dedupVars, pipeVars, btVars, loop, unitVars, mstop, dsub, ta>>

---------------------------------------------------------------------------
(* Bounds of the model *)

MaxClock == 3
MaxAge == 2
MaxCalls == 3
MaxThreadCalls == 2
MaxRows == 2
MaxRuns == 1
MaxCandles == 3
MaxDirectCalls == 2
MaxIterations == 2

(* dedup_window_hours, the argument of SignalDeduplicator.__init__ (4 by *)
(* default); the model runs a deduplicator with a shorter window         *)
DedupWindowHours == 2

Workers == {"w1", "w2"}

(* the timeframe each worker monitors *)
TimeframeOf(w) == IF w = "w1" THEN "1h" ELSE "4h"

---------------------------------------------------------------------------
(* Signals offered to the deduplicator.  SetupA2 differs from SetupA1 only *)
(* below the second decimal, in symbol and in confidence: its stop,        *)
(* 2635.205, is held by the float just below it and round() gives 2635.2.  *)
(* SetupB1 differs from SetupA1 in the second decimal of the entry after   *)
(* rounding: 2650.505 is held by the float just above it and round() gives *)
(* 2650.51.                                                                *)

SetupA1 ==
    [direction |-> "LONG", strategy_name |-> "Order Block Retest",
     entry_price |-> 2650500, stop_loss |-> 2635200, take_profit |-> 2681100,
     symbol |-> "XAUUSD", confidence |-> 75]

SetupA2 ==
    [direction |-> "LONG", strategy_name |-> "Order Block Retest",
     entry_price |-> 2650504, stop_loss |-> 2635205, take_profit |-> 2681102,
     symbol |-> "GC=F", confidence |-> 80]

SetupB1 ==
    [direction |-> "LONG", strategy_name |-> "Order Block Retest",
     entry_price |-> 2650505, stop_loss |-> 2635200, take_profit |-> 2681100,
     symbol |-> "XAUUSD", confidence |-> 75]

Setups == {SetupA1, SetupA2, SetupB1}

(* a ValidatedSignal built from a setup, as far as the deduplicator reads it *)
ValidatedSignal(setup, tf, ts) ==
    [direction |-> setup.direction, strategy_name |-> setup.strategy_name,
     entry_price |-> setup.entry_price, stop_loss |-> setup.stop_loss,
     take_profit |-> setup.take_profit, symbol |-> setup.symbol,
     confidence |-> setup.confidence, timeframe |-> tf, timestamp |-> ts]

(* the signals a worker can offer at hour t: the timestamp is the candle's, *)
(* either the hour of the call or MaxAge hours before it                    *)
SignalsAt(w, t) ==
    { ValidatedSignal(setup, TimeframeOf(w), t - age) :
          setup \in Setups, age \in {0, MaxAge} }

---------------------------------------------------------------------------
(* SignalFingerprint *)

(* A price of p thousandths is held as the double nearest to p/1000.  With  *)
(* 2^k <= p/1000 < 2^(k+1) one unit of the last place is 2^(k-52), and      *)
(* p/1000 = p * 2^(49-k) / 125 units: the double is the nearest whole       *)
(* number of units, and its distance from p/1000 follows from the           *)
(* remainder of p * 2^(49-k) by 125.                                        *)

RECURSIVE Pow2(_)
Pow2(n) == IF n <= 0 THEN 1 ELSE 2 * Pow2(n - 1)

(* the powers of two for the exponents 0 to 30 *)
Pow2Table == [n \in 0..30 |-> Pow2(n)]

RECURSIVE Pow2Mod125(_)
(* 2^n modulo 125, by squaring *)
Pow2Mod125(n) ==
    IF n <= 0 THEN 1
    ELSE IF n % 2 = 1 THEN (2 * Pow2Mod125(n - 1)) % 125
    ELSE LET half == Pow2Mod125(n \div 2) IN (half * half) % 125

(* the powers of two modulo 125 for the exponents 0 to 59 *)
Pow2Mod125Table == [n \in 0..59 |-> Pow2Mod125(n)]

RECURSIVE ExponentUp(_, _, _)
(* the k with p < 1000 * 2^(k+1), from k upwards; top is 1000 * 2^(k+1) *)
ExponentUp(p, k, top) ==
    IF p < top THEN k ELSE ExponentUp(p, k + 1, 2 * top)

RECURSIVE ExponentDown(_, _, _)
(* the k with 1000 * 2^k <= p, from k downwards; scaled is p * 2^(-k) *)
ExponentDown(p, k, scaled) ==
    IF scaled >= 1000 THEN k ELSE ExponentDown(p, k - 1, 2 * scaled)

(* the binary exponent k of the float that holds a price p > 0: *)
(* 2^k <= p/1000 < 2^(k+1); the search starts at 2^11 for a     *)
(* price of 2048 dollars or more                                *)
BinaryExponent(p) ==
    IF p >= 2048000 THEN ExponentUp(p, 11, 4096000)
    ELSE IF p >= 1000 THEN ExponentUp(p, 0, 2000)
    ELSE ExponentDown(p, 0 - 1, 2 * p)

(* float(p/1000) - p/1000 in 125ths of a unit of the last place: negative *)
(* when the float lies below the decimal, 0 when it holds it exactly      *)
FloatError(p) ==
    IF p <= 0 \/ p % 125 = 0 THEN 0
    ELSE LET r == ((p % 125) * Pow2Mod125Table[49 - BinaryExponent(p)]) % 125
         IN  IF 2 * r < 125 THEN 0 - r ELSE 125 - r

(* round(price, 2), in hundredths, of a price p >= 0 in thousandths: the   *)
(* float's exact value is rounded to the nearest hundredth, so that a 5 in *)
(* the third decimal goes the way the float lies from the decimal, and to  *)
(* the even hundredth when the float holds the decimal exactly             *)
Round2(p) ==
    IF p % 10 # 5 THEN (p + 5) \div 10
    ELSE LET error == FloatError(p)
         IN  IF error < 0 THEN p \div 10
             ELSE IF error > 0 THEN p \div 10 + 1
             ELSE IF (p \div 10) % 2 = 0 THEN p \div 10 ELSE p \div 10 + 1

(* SignalFingerprint(...) as is_duplicate and the loader build it *)
Fingerprint(s) ==
    [direction |-> s.direction, strategy_name |-> s.strategy_name,
     entry_price |-> s.entry_price, stop_loss |-> s.stop_loss,
     take_profit |-> s.take_profit, timestamp |-> s.timestamp]

(* SignalFingerprint.to_hash: the md5 of the string                         *)
(* "{direction}_{strategy}_{entry}_{sl}_{tp}" of the rounded prices, taken  *)
(* as the tuple the string spells (md5 assumed collision free); the rounded *)
(* prices are in hundredths                                                 *)
ToHash(fp) ==
    <<fp.direction, fp.strategy_name, Round2(fp.entry_price),
      Round2(fp.stop_loss), Round2(fp.take_profit)>>

---------------------------------------------------------------------------
(* The cache: a function from hashes to fingerprints *)

EmptyCache == [h \in {} |-> 0]

(* recent_signals[h] = fp *)
Put(cache, h, fp) ==
    [k \in (DOMAIN cache) \cup {h} |-> IF k = h THEN fp ELSE cache[k]]

(* SignalDeduplicator._cleanup_old_signals: the dict it builds *)
CleanupOldSignals(cache, t) ==
    LET cutoff == t - DedupWindowHours
        keep == {h \in DOMAIN cache : cache[h].timestamp > cutoff}
    IN  [h \in keep |-> cache[h]]

---------------------------------------------------------------------------
(* Startup recovery *)

Row(setup, age, bad) ==
    [direction |-> setup.direction, strategy_name |-> setup.strategy_name,
     entry_price |-> setup.entry_price, stop_loss |-> setup.stop_loss,
     take_profit |-> setup.take_profit, timestamp |-> 0 - age, bad |-> bad]

(* rows the store can hold when the process starts at hour 0; a bad row is *)
(* one whose conversion to a fingerprint raises                            *)
RowPool ==
    { Row(SetupA1, 0, FALSE),
      Row(SetupA2, DedupWindowHours - 1, FALSE),
      Row(SetupB1, DedupWindowHours, FALSE),
      Row(SetupA1, DedupWindowHours + 1, FALSE),
      Row(SetupB1, 1, TRUE) }

Tables == UNION { [1..n -> RowPool] : n \in 0..MaxRows }

RECURSIVE InsertDesc(_, _)
(* one row put into a sequence ordered by timestamp, newest first *)
InsertDesc(row, rows) ==
    IF rows = << >> THEN <<row>>
    ELSE IF row.timestamp > Head(rows).timestamp THEN <<row>> \o rows
    ELSE <<Head(rows)>> \o InsertDesc(row, Tail(rows))

RECURSIVE SortDesc(_)
(* order_by(Signal.timestamp.desc()) *)
SortDesc(rows) ==
    IF rows = << >> THEN << >> ELSE InsertDesc(Head(rows), SortDesc(Tail(rows)))

(* session.query(Signal).filter(Signal.timestamp >= cutoff).order_by(...).all() *)
QueryRecent(table, cutoff) ==
    LET Recent(r) == r.timestamp >= cutoff
    IN  SortDesc(SelectSeq(table, Recent))

RECURSIVE LoadRows(_, _)
(* the loop over the rows: a row that cannot be converted raises, and the *)
(* handler keeps what the loop has put in the cache so far                *)
LoadRows(rows, cache) ==
    IF rows = << >> THEN [cache |-> cache, outcome |-> "ok"]
    ELSE IF Head(rows).bad THEN [cache |-> cache, outcome |-> "row_error"]
    ELSE LoadRows(Tail(rows),
                  Put(cache, ToHash(Fingerprint(Head(rows))),
                      Fingerprint(Head(rows))))

(* how a load can go: no database URL, the database modules missing, the *)
(* connection or the query failing, or the query answering               *)
LoadModes == {"no_url", "import_error", "db_error", "ok"}

(* SignalDeduplicator._load_recent_signals_from_db *)
LoadRecentSignalsFromDb(mode, table, t) ==
    IF mode # "ok" THEN [cache |-> EmptyCache, outcome |-> mode]
    ELSE LoadRows(QueryRecent(table, t - DedupWindowHours), EmptyCache)

---------------------------------------------------------------------------
(* is_duplicate *)

(* is_duplicate that stores the fingerprint of a suppressed duplicate too *)
IsDuplicateRefreshing(cache, s, t) ==
    LET fp == Fingerprint(s)
        h == ToHash(fp)
        cleaned == CleanupOldSignals(cache, t)
    IN  IF h \in DOMAIN cleaned
        THEN [cache |-> Put(cleaned, h, fp), ret |-> "True"]
        ELSE [cache |-> Put(cleaned, h, fp), ret |-> "False"]

(* SignalDeduplicator.is_duplicate run without interruption: the cache it *)
(* leaves and the value it returns                                        *)
IsDuplicateResult(cache, s, t) ==
    LET fp == Fingerprint(s)
        h == ToHash(fp)
        cleaned == CleanupOldSignals(cache, t)
    IN  IF h \in DOMAIN cleaned
        THEN [cache |-> cleaned, ret |-> "True"]
        ELSE [cache |-> Put(cleaned, h, fp), ret |-> "False"]

---------------------------------------------------------------------------
(* The real-time pipeline: a generator owned by a TimeframeWorker thread   *)
(* (run_multi_timeframe_service.py), by the SignalService, or by a caller  *)
(* that uses it the way the self-test of realtime_generator.py does: the   *)
(* feed is connected, the generator built, a function subscribed, run_once *)
(* called and then stop.  The caller hands the generator the strategy and  *)
(* the validator that TimeframeWorker._run builds, GoldStrategy() and      *)
(* SignalValidator(min_rr_ratio=1.5).                                      *)

NoSignal == [direction |-> "none"]

Gens == Workers \cup {"svc", "caller"}

FeedSymbol == "XAUUSD"

(* the timeframe of the owner's data feed; ServiceConfig defaults to 4H *)
GenTimeframe(g) == IF g \in Workers THEN TimeframeOf(g) ELSE "4H"

(* SignalValidator.__init__: min_rr_ratio 1.5, max_entry_deviation 0.05 *)
MinRRRatio == <<3, 2>>
MaxEntryDeviation == <<1, 20>>
DuplicateWindowHours == 4
ValidatorKeepHours == 24

(* what GoldStrategy.evaluate may hand to the validator; the time of a *)
(* candidate is the timestamp of the last candle                       *)
Candidate(dir, name, entry, stop, target, conf) ==
    [direction |-> dir, signal_name |-> name, entry_price |-> entry,
     stop_loss |-> stop, take_profit |-> target, confidence |-> conf]

CandidatePool ==
    { Candidate("LONG", "Order Block Retest", 2650500, 2635200, 2681100, 75),
      Candidate("SHORT", "Momentum Equilibrium", 2650500, 2665800, 2619900, 80),
      Candidate("LONG", "Momentum Equilibrium", 2650500, 2635200, 2660000, 70),
      Candidate("LONG", "Golden Fibonacci", 2650500, 2665800, 2681100, 70),
      Candidate("SHORT", "ATH Retest", 2650500, 2665800, 0, 60) }

NoCandidate == [direction |-> "none"]

CandidatesAt(t) ==
    { [time |-> t - age] @@ c : c \in CandidatePool, age \in {0, MaxAge} }

(* what evaluate can return in the generator of owner g: the strategy of *)
(* the service has every rule disabled (_create_strategy sets every key  *)
(* of rules_enabled to False and adds a key evaluate does not read), so  *)
(* that its evaluate returns None on every candle                        *)
CandidatesFor(g, t) ==
    IF g = "svc" THEN {NoCandidate} ELSE CandidatesAt(t) \cup {NoCandidate}

(* df['close'].iloc[-1] of the fetched window *)
ClosePrices == {2650000, 2900000}

Abs(x) == IF x < 0 THEN 0 - x ELSE x

(* take_profit = None: Signal.take_profit is Optional[float] *)
NoTarget == 0 - 1

(* _is_valid_signal without its assertion on take_profit *)
IsValidSignalAnyTarget(c) ==
    IF c.entry_price <= 0 THEN "False"
    ELSE IF c.stop_loss <= 0 THEN "False"
    ELSE IF c.direction \notin {"LONG", "SHORT"} THEN "False"
    ELSE IF c.confidence < 0 \/ c.confidence > 100 THEN "False"
    ELSE "True"

(* SignalValidator._is_valid_signal, the assertions in their order:       *)
(* "True", "False" when an assertion fails, or "TypeError", which the      *)
(* comparison None > 0 raises and the except clause (AssertionError,       *)
(* AttributeError) does not catch.  Confidence is held in percent.         *)
IsValidSignal(c) ==
    IF c.entry_price <= 0 THEN "False"
    ELSE IF c.stop_loss <= 0 THEN "False"
    ELSE IF c.take_profit = NoTarget THEN "TypeError"
    ELSE IF c.take_profit <= 0 THEN "False"
    ELSE IF c.direction \notin {"LONG", "SHORT"} THEN "False"
    ELSE IF c.confidence < 0 \/ c.confidence > 100 THEN "False"
    ELSE "True"

(* rr_ratio < self.min_rr_ratio for min_rr_ratio 1.5, as the floats give  *)
(* it: risk_pips and reward_pips are differences of floats times 10 and   *)
(* rr_ratio their quotient, each rounded to the nearest double.  When the *)
(* decimal reward is not exactly 1.5 times the decimal risk the floats    *)
(* order them as the decimals do; when it is, the errors of the three     *)
(* floats decide.  Derived for an entry, a stop and a target with one     *)
(* binary exponent k and less than 2^(k+1)/10 dollars apart, as gold      *)
(* prices between 2048 and 4096 dollars are.                              *)
RatioBelowMinimum(c) ==
    LET long == c.direction = "LONG"
        risk == IF long THEN c.entry_price - c.stop_loss
                        ELSE c.stop_loss - c.entry_price
        reward == IF long THEN c.take_profit - c.entry_price
                          ELSE c.entry_price - c.take_profit
        decimal == MinRRRatio[2] * reward - MinRRRatio[1] * risk
    IN  IF decimal # 0 THEN decimal < 0
        ELSE LET entry_error == FloatError(c.entry_price)
                 stop_error == FloatError(c.stop_loss)
                 target_error == FloatError(c.take_profit)
                 risk_error == IF long THEN entry_error - stop_error
                                       ELSE stop_error - entry_error
                 reward_error == IF long THEN target_error - entry_error
                                         ELSE entry_error - target_error
                 scaled == (MinRRRatio[2] * reward_error
                                - MinRRRatio[1] * risk_error)
                               * Pow2Table[BinaryExponent(c.entry_price) + 3]
                           + risk
             IN  IF scaled # 0 THEN scaled < 0 ELSE risk_error < 0

(* entry_deviation > self.max_entry_deviation for max_entry_deviation     *)
(* 0.05, as the floats give it: abs(entry - current) / current against    *)
(* the double nearest to 0.05.  Off the decimal boundary the floats order *)
(* them as the decimals do; on it the errors of the two floats decide.    *)
(* Derived for an entry and a close with one binary exponent.             *)
DeviationAboveMaximum(entry_price, current_price) ==
    LET decimal == MaxEntryDeviation[2] * Abs(entry_price - current_price)
                       - MaxEntryDeviation[1] * current_price
    IN  IF decimal # 0 THEN decimal > 0
        ELSE LET sign == IF entry_price >= current_price THEN 1 ELSE 0 - 1
                 current_error == FloatError(current_price)
                 error == MaxEntryDeviation[2] * sign
                              * (FloatError(entry_price) - current_error)
                              - current_error
                 scaled == error * Pow2Table[BinaryExponent(current_price) + 7]
             IN  IF scaled # 9 * current_price THEN scaled > 9 * current_price
                 ELSE current_error < 0

(* SignalValidator._is_duplicate *)
ValidatorIsDuplicate(recent, direction, signal_time) ==
    \E i \in DOMAIN recent :
        /\ recent[i].direction = direction
        /\ recent[i].timestamp > signal_time - DuplicateWindowHours

(* SignalValidator.validate at hour t: the signal, or the reason why it *)
(* returns None, or the exception that leaves it, and the validator's   *)
(* list afterwards                                                      *)
Validate(recent, c, current_price, symbol, timeframe, t) ==
    LET risk == IF c.direction = "LONG"
                THEN c.entry_price - c.stop_loss
                ELSE c.stop_loss - c.entry_price
        reward == IF c.direction = "LONG"
                  THEN c.take_profit - c.entry_price
                  ELSE c.entry_price - c.take_profit
        sig == ValidatedSignal(
                   [direction |-> c.direction, strategy_name |-> c.signal_name,
                    entry_price |-> c.entry_price, stop_loss |-> c.stop_loss,
                    take_profit |-> c.take_profit, symbol |-> symbol,
                    confidence |-> c.confidence],
                   timeframe, c.time)
        Fresh(v) == v.timestamp > t - ValidatorKeepHours
        Reject(why) == [ok |-> FALSE, raised |-> FALSE, why |-> why,
                        sig |-> NoSignal, recent |-> recent]
    IN  IF IsValidSignal(c) = "TypeError"
        THEN [ok |-> FALSE, raised |-> TRUE, why |-> "TypeError",
              sig |-> NoSignal, recent |-> recent]
        ELSE IF IsValidSignal(c) = "False" THEN Reject("invalid")
        ELSE IF risk <= 0 THEN Reject("risk")
        ELSE IF reward <= 0 THEN Reject("reward")
        ELSE IF RatioBelowMinimum(c) THEN Reject("rr")
        ELSE IF DeviationAboveMaximum(c.entry_price, current_price)
             THEN Reject("deviation")
        ELSE IF ValidatorIsDuplicate(recent, c.direction, c.time)
             THEN Reject("duplicate")
        ELSE [ok |-> TRUE, raised |-> FALSE, why |-> "valid", sig |-> sig,
              recent |-> SelectSeq(Append(recent, sig), Fresh)]

(* SignalService._setup_subscribers when no constructor raises: three *)
(* independent tests, each adding its subscriber to the generator      *)
SetupSubscribers(enable_database, enable_logger, enable_console) ==
    (IF enable_database THEN <<"DatabaseSubscriber">> ELSE << >>)
        \o (IF enable_logger THEN <<"LoggerSubscriber">> ELSE << >>)
        \o (IF enable_console THEN <<"ConsoleSubscriber">> ELSE << >>)

(* the subscriber lists ServiceConfig's enable flags can produce *)
ServiceSubscriberLists ==
    { SetupSubscribers(d, l, c) : d \in BOOLEAN, l \in BOOLEAN, c \in BOOLEAN }

(* DatabaseSubscriber.save_signal: the row of the signals table, as far *)
(* as the deduplicator's loader reads it                                *)
SavedRow(sig) ==
    [direction |-> sig.direction, strategy_name |-> sig.strategy_name,
     entry_price |-> sig.entry_price, stop_loss |-> sig.stop_loss,
     take_profit |-> sig.take_profit, timestamp |-> sig.timestamp,
     bad |-> FALSE]

NoRun == [result |-> "none", n |-> 0]

(* no call of SignalService.start so far *)
NoSvc == [pc |-> "none", enable_database |-> FALSE, enable_logger |-> FALSE,
          enable_console |-> FALSE]

(* no run_once in progress *)
RunIdle == [pc |-> "idle"]

PipeInit ==
    /\ owner_state = [g \in Gens |-> "new"]
    /\ gen_made = [g \in Gens |-> FALSE]
    /\ feed_connected = [g \in Gens |-> FALSE]
    /\ subscribers = [g \in Gens |-> << >>]
    /\ val_recent = [g \in Gens |-> << >>]
    /\ candles_processed = [g \in Gens |-> 0]
    /\ signals_generated = [g \in Gens |-> 0]
    /\ nruns = 0
    /\ validated = {}
    /\ delivered = {}
    /\ last_run = NoRun
    /\ svc = NoSvc
    /\ run = [g \in Gens |-> RunIdle]

NoCall == [ret |-> "none", n |-> 0]

(* history of a call that ends *)
Returned(w, s, ret) ==
    /\ ncalls' = ncalls + 1
    /\ last_call' = [sig |-> s, at |-> now, ret |-> ret, n |-> ncalls + 1,
                     cached |-> ToHash(Fingerprint(s)) \in DOMAIN recent_signals]
    /\ accepted' = IF ret = "False"
                   THEN accepted \cup {[sig |-> s, at |-> now, n |-> ncalls + 1]}
                   ELSE accepted

---------------------------------------------------------------------------
(* The backtest simulator (backtesting/engine.py).  Candle prices, signal *)
(* prices, slippage and commission are whole dollars; position sizes,     *)
(* pnl, balance and equity are exact fractions <<numerator, denominator>> *)
(* with a positive denominator, in lowest terms.  A price of 0 stands for *)
(* None (no take profit, no exit yet); candle times are the positions in  *)
(* the unfiltered series.                                                 *)

RECURSIVE GCD(_, _)
GCD(a, b) == IF b = 0 THEN a ELSE GCD(b, a % b)

Rat(n, d) ==
    LET g == GCD(Abs(n), Abs(d))
        sgn == IF d < 0 THEN 0 - 1 ELSE 1
    IN  <<(sgn * n) \div g, (sgn * d) \div g>>

RInt(n) == <<n, 1>>
RAdd(a, b) == Rat(a[1] * b[2] + b[1] * a[2], a[2] * b[2])
RSub(a, b) == Rat(a[1] * b[2] - b[1] * a[2], a[2] * b[2])
RMul(a, b) == Rat(a[1] * b[1], a[2] * b[2])
RDiv(a, b) == Rat(a[1] * b[2], a[2] * b[1])
RLe(a, b) == a[1] * b[2] <= b[1] * a[2]
RLt(a, b) == a[1] * b[2] < b[1] * a[2]

(* BacktestEngine.__init__: the arguments the engine of the backtests is *)
(* built with, BacktestEngine(initial_balance=100, position_size_pct=50) *)
EngineConfig == [initial_balance |-> 100, position_size_pct |-> 50]
Commissions == {0, 1}
Slippages == {0, 1}
MaxOpenTradesChoices == {1, 2}

(* the shapes of a candle: quiet, wide (reaches every stop and target), up *)
CandleShapes ==
    { [high |-> 101, low |-> 99, close |-> 100],
      [high |-> 106, low |-> 94, close |-> 103],
      [high |-> 106, low |-> 99, close |-> 105] }

(* the DataFrame handed to run *)
CandleSeries == UNION { [1..n -> CandleShapes] : n \in 0..MaxCandles }

(* start_date and end_date of run; 0 stands for None *)
DateRanges == { <<0, 0>>, <<2, 0>>, <<2, 1>>, <<2, 2>> }

(* df = df[df.index >= start_date]; df = df[df.index <= end_date] *)
FilterDates(series, start_date, end_date) ==
    LET stamped == [k \in DOMAIN series |-> [time |-> k] @@ series[k]]
        AfterStart(c) == start_date = 0 \/ c.time >= start_date
        BeforeEnd(c) == end_date = 0 \/ c.time <= end_date
    IN  SelectSeq(SelectSeq(stamped, AfterStart), BeforeEnd)

(* what strategy_func may return *)
BtSignal(dir, entry, stop, target, name) ==
    [direction |-> dir, entry_price |-> entry, stop_loss |-> stop,
     take_profit |-> target, signal_name |-> name]

StrategySignals ==
    { BtSignal("long", 100, 98, 104, "Golden Fibonacci"),
      BtSignal("short", 100, 102, 96, "ATH Retest"),
      BtSignal("long", 100, 98, 0, "Momentum Equilibrium"),
      BtSignal("long", 100, 100, 104, "Order Block Retest") }

(* Trade.close *)
TradeClose(trade, exit_time, exit_price, status) ==
    LET move == IF trade.direction = "long"
                THEN exit_price - trade.entry_price
                ELSE trade.entry_price - exit_price
    IN  [trade EXCEPT !.exit_time = exit_time,
                      !.exit_price = exit_price,
                      !.status = status,
                      !.pnl = RMul(RInt(move), trade.position_size),
                      !.pnl_pips = move * 10]

(* a plausible slip: the distance to the stop keeps its sign *)
CalculatePositionSizeSigned(bal, position_size_pct, entry_price, stop_loss) ==
    LET risk_amount == RMul(bal, Rat(position_size_pct, 100))
        risk_per_unit == entry_price - stop_loss
    IN  IF risk_per_unit = 0 THEN RInt(0)
        ELSE RDiv(risk_amount, RInt(risk_per_unit))

(* BacktestEngine.calculate_position_size *)
CalculatePositionSize(bal, position_size_pct, entry_price, stop_loss) ==
    LET risk_amount == RMul(bal, Rat(position_size_pct, 100))
        risk_per_unit == Abs(entry_price - stop_loss)
    IN  IF risk_per_unit <= 0 THEN RInt(0)
        ELSE RDiv(risk_amount, RInt(risk_per_unit))

(* the engine's mutable fields, as one record the steps of run pass on *)
Engine(bal, trs, open, counter, log) ==
    [balance |-> bal, trades |-> trs, open_trades |-> open,
     trade_counter |-> counter, close_log |-> log]

(* a plausible slip: the trade is opened whatever its size *)
OpenTradeAnySize(e, signal, current_time, cfg) ==
    LET entry_price == IF signal.direction = "long"
                       THEN signal.entry_price + cfg.slippage
                       ELSE signal.entry_price - cfg.slippage
        position_size == CalculatePositionSize(e.balance, cfg.position_size_pct,
                                               entry_price, signal.stop_loss)
        trade == [id |-> e.trade_counter + 1,
                  entry_time |-> current_time,
                  entry_price |-> entry_price,
                  direction |-> signal.direction,
                  stop_loss |-> signal.stop_loss,
                  take_profit |-> signal.take_profit,
                  position_size |-> position_size,
                  exit_time |-> 0,
                  exit_price |-> 0,
                  status |-> "open",
                  pnl |-> RInt(0),
                  pnl_pips |-> 0,
                  signal_name |-> signal.signal_name]
    IN  Engine(RSub(e.balance, RInt(cfg.commission)),
               Append(e.trades, trade),
               Append(e.open_trades, trade.id),
               e.trade_counter + 1,
               e.close_log)

(* BacktestEngine.open_trade *)
OpenTrade(e, signal, current_time, cfg) ==
    LET entry_price == IF signal.direction = "long"
                       THEN signal.entry_price + cfg.slippage
                       ELSE signal.entry_price - cfg.slippage
        position_size == CalculatePositionSize(e.balance, cfg.position_size_pct,
                                               entry_price, signal.stop_loss)
        trade == [id |-> e.trade_counter + 1,
                  entry_time |-> current_time,
                  entry_price |-> entry_price,
                  direction |-> signal.direction,
                  stop_loss |-> signal.stop_loss,
                  take_profit |-> signal.take_profit,
                  position_size |-> position_size,
                  exit_time |-> 0,
                  exit_price |-> 0,
                  status |-> "open",
                  pnl |-> RInt(0),
                  pnl_pips |-> 0,
                  signal_name |-> signal.signal_name]
    IN  IF RLe(position_size, RInt(0)) THEN e
        ELSE Engine(RSub(e.balance, RInt(cfg.commission)),
                    Append(e.trades, trade),
                    Append(e.open_trades, trade.id),
                    e.trade_counter + 1,
                    e.close_log)

NoExit == [status |-> "open", price |-> 0]

(* a plausible slip: the target is tested before the stop *)
ExitTargetFirst(trade, candle, slippage) ==
    IF trade.direction = "long"
    THEN IF trade.take_profit # 0 /\ candle.high >= trade.take_profit
         THEN [status |-> "closed_tp", price |-> trade.take_profit - slippage]
         ELSE IF candle.low <= trade.stop_loss
         THEN [status |-> "closed_sl", price |-> trade.stop_loss - slippage]
         ELSE NoExit
    ELSE IF trade.take_profit # 0 /\ candle.low <= trade.take_profit
         THEN [status |-> "closed_tp", price |-> trade.take_profit + slippage]
         ELSE IF candle.high >= trade.stop_loss
         THEN [status |-> "closed_sl", price |-> trade.stop_loss + slippage]
         ELSE NoExit

(* check_and_close_trades: the exit of one open trade on a candle *)
ExitOf(trade, candle, slippage) ==
    IF trade.direction = "long"
    THEN IF candle.low <= trade.stop_loss
         THEN [status |-> "closed_sl", price |-> trade.stop_loss - slippage]
         ELSE IF trade.take_profit # 0 /\ candle.high >= trade.take_profit
         THEN [status |-> "closed_tp", price |-> trade.take_profit - slippage]
         ELSE NoExit
    ELSE IF candle.high >= trade.stop_loss
         THEN [status |-> "closed_sl", price |-> trade.stop_loss + slippage]
         ELSE IF trade.take_profit # 0 /\ candle.low <= trade.take_profit
         THEN [status |-> "closed_tp", price |-> trade.take_profit + slippage]
         ELSE NoExit

(* a plausible slip: the closed trades stay in open_trades *)
KeepClosedTrades(open, to_remove) == open

(* check_and_close_trades: for trade in trades_to_remove: open_trades.remove *)
RemoveTrades(open, to_remove) ==
    LET Stays(id) == id \notin to_remove
    IN  SelectSeq(open, Stays)

(* check_and_close_trades: the loop over open_trades; todo is what is left *)
(* of the list, removed the ids collected in trades_to_remove              *)
RECURSIVE CloseLoop(_, _, _, _, _)
CloseLoop(e, todo, removed, candle, cfg) ==
    IF todo = << >> THEN [e |-> e, removed |-> removed]
    ELSE LET id == Head(todo)
             exit == ExitOf(e.trades[id], candle, cfg.slippage)
             closed == TradeClose(e.trades[id], candle.time, exit.price, exit.status)
             after == RAdd(e.balance, RSub(closed.pnl, RInt(cfg.commission)))
         IN  IF exit = NoExit
             THEN CloseLoop(e, Tail(todo), removed, candle, cfg)
             ELSE CloseLoop(
                      Engine(after,
                             [e.trades EXCEPT ![id] = closed],
                             e.open_trades,
                             e.trade_counter,
                             Append(e.close_log,
                                    [id |-> id, status |-> exit.status,
                                     before |-> e.balance, after |-> after,
                                     pnl |-> closed.pnl])),
                      Tail(todo), removed \cup {id}, candle, cfg)

(* BacktestEngine.check_and_close_trades *)
CheckAndCloseTrades(e, candle, cfg) ==
    LET r == CloseLoop(e, e.open_trades, {}, candle, cfg)
    IN  [r.e EXCEPT !.open_trades = RemoveTrades(r.e.open_trades, r.removed)]

(* run: open_pnl of the open trades at the candle's close *)
RECURSIVE OpenPnl(_, _, _)
OpenPnl(trs, open, close) ==
    IF open = << >> THEN RInt(0)
    ELSE LET t == trs[Head(open)]
             move == IF t.direction = "long"
                     THEN close - t.entry_price
                     ELSE t.entry_price - close
         IN  RAdd(RMul(RInt(move), t.position_size), OpenPnl(trs, Tail(open), close))

(* a plausible slip: only the first open trade is closed at the end *)
ForceCloseFirst(e, todo, final_candle) ==
    IF todo = << >> THEN e
    ELSE LET id == Head(todo)
             closed == TradeClose(e.trades[id], final_candle.time,
                                  final_candle.close, "closed_manual")
             after == RAdd(e.balance, closed.pnl)
         IN  Engine(after,
                    [e.trades EXCEPT ![id] = closed],
                    RemoveTrades(e.open_trades, {id}),
                    e.trade_counter,
                    Append(e.close_log,
                           [id |-> id, status |-> "closed_manual",
                            before |-> e.balance, after |-> after,
                            pnl |-> closed.pnl]))

(* a plausible slip: the trades left open are closed at the end without *)
(* their pnl being added to the balance                                *)
ForceCloseUnbooked(e, todo, final_candle) ==
    LET Left(k) == \E i \in DOMAIN todo : todo[i] = k
    IN  Engine(e.balance,
               [k \in DOMAIN e.trades |->
                   IF Left(k)
                   THEN TradeClose(e.trades[k], final_candle.time,
                                   final_candle.close, "closed_manual")
                   ELSE e.trades[k]],
               << >>,
               e.trade_counter,
               e.close_log)

(* run: for trade in self.open_trades[:]: close at the final candle's *)
(* close, balance += pnl, remove                                      *)
RECURSIVE ForceClose(_, _, _)
ForceClose(e, todo, final_candle) ==
    IF todo = << >> THEN e
    ELSE LET id == Head(todo)
             closed == TradeClose(e.trades[id], final_candle.time,
                                  final_candle.close, "closed_manual")
             after == RAdd(e.balance, closed.pnl)
         IN  ForceClose(
                 Engine(after,
                        [e.trades EXCEPT ![id] = closed],
                        RemoveTrades(e.open_trades, {id}),
                        e.trade_counter,
                        Append(e.close_log,
                               [id |-> id, status |-> "closed_manual",
                                before |-> e.balance, after |-> after,
                                pnl |-> closed.pnl])),
                 Tail(todo), final_candle)

(* float('inf'), as a fraction that no division of the model produces *)
Inf == <<1, 0>>

RAbs(a) == <<Abs(a[1]), a[2]>>

(* sum(t.pnl for t in ...) over the trades with the ids ks *)
RECURSIVE PnlSum(_, _)
PnlSum(trs, ks) ==
    IF ks = {} THEN RInt(0)
    ELSE LET k == CHOOSE k \in ks : TRUE
         IN  RAdd(trs[k].pnl, PnlSum(trs, ks \ {k}))

(* the test of the losing list with `<` in place of `<=` *)
IsLosingStrict(pnl) == RLt(pnl, RInt(0))

(* the test of the losing list: t.pnl <= 0 *)
IsLosing(pnl) == RLe(pnl, RInt(0))

(* np.maximum.accumulate(equity)[i] *)
PeakAt(curve, i) ==
    CHOOSE p \in { curve[j] : j \in 1..i } : \A j \in 1..i : RLe(curve[j], p)

(* np.max(peak - equity) *)
MaxDrawdown(curve) ==
    LET DrawdownAt(i) == RSub(PeakAt(curve, i), curve[i])
    IN  CHOOSE d \in { DrawdownAt(i) : i \in DOMAIN curve } :
            \A i \in DOMAIN curve : RLe(DrawdownAt(i), d)

(* BacktestResult.calculate_metrics, with the fields run gives to        *)
(* BacktestResult: the counts, the win rate, the profit factor and the   *)
(* drawdown; every metric keeps the default of the dataclass when the    *)
(* method returns early                                                  *)
CalculateMetrics(trs, final_balance, curve) ==
    LET closed == {k \in DOMAIN trs : trs[k].status # "open"}
        winning == {k \in closed : RLt(RInt(0), trs[k].pnl)}
        losing == {k \in closed : IsLosing(trs[k].pnl)}
        total_profit == PnlSum(trs, winning)
        total_loss == RAbs(PnlSum(trs, losing))
        max_peak == PeakAt(curve, Len(curve))
        given == [trades |-> trs,
                  initial_balance |-> RInt(EngineConfig.initial_balance),
                  final_balance |-> final_balance,
                  equity_curve |-> curve]
        defaults == [total_trades |-> 0, winning_trades |-> 0, losing_trades |-> 0,
                     win_rate |-> RInt(0), profit_factor |-> RInt(0),
                     max_drawdown |-> RInt(0), max_drawdown_pct |-> RInt(0)]
    IN  IF closed = {}
        THEN given @@ defaults
        ELSE given @@
             [total_trades |-> Cardinality(closed),
              winning_trades |-> Cardinality(winning),
              losing_trades |-> Cardinality(losing),
              win_rate |-> Rat(Cardinality(winning) * 100, Cardinality(closed)),
              profit_factor |-> IF RLt(RInt(0), total_loss)
                                THEN RDiv(total_profit, total_loss)
                                ELSE Inf,
              max_drawdown |-> IF curve = << >> THEN RInt(0) ELSE MaxDrawdown(curve),
              max_drawdown_pct |->
                  IF curve = << >> THEN RInt(0)
                  ELSE IF RLt(RInt(0), max_peak)
                  THEN RMul(RDiv(MaxDrawdown(curve), max_peak), RInt(100))
                  ELSE RInt(0)]

(* SignalRepository.get_performance_stats over the closed signals of the *)
(* store, given by their pnl; `s.pnl and s.pnl > 0` leaves a pnl of 0    *)
(* (and None) out of both lists                                          *)
GetPerformanceStats(closed_signals) ==
    LET all == DOMAIN closed_signals
        winners == {k \in all : RLt(RInt(0), closed_signals[k].pnl)}
        losers == {k \in all : RLt(closed_signals[k].pnl, RInt(0))}
        total_wins == PnlSum(closed_signals, winners)
        total_losses == RAbs(PnlSum(closed_signals, losers))
    IN  IF all = {}
        THEN [total_signals |-> 0, winning_signals |-> 0, losing_signals |-> 0,
              win_rate |-> RInt(0), profit_factor |-> RInt(0)]
        ELSE [total_signals |-> Cardinality(all),
              winning_signals |-> Cardinality(winners),
              losing_signals |-> Cardinality(losers),
              win_rate |-> Rat(Cardinality(winners) * 100, Cardinality(all)),
              profit_factor |-> IF RLt(RInt(0), total_losses)
                                THEN RDiv(total_wins, total_losses)
                                ELSE RInt(0)]

NoResult == [final_balance |-> RInt(0)]

(* BacktestEngine(initial_balance=100, position_size_pct=50), the engine  *)
(* of EngineConfig: commission and slippage are left at their defaults   *)
(* 0.0, and run() is called with max_open_trades at its default 1.  The  *)
(* defaults of initial_balance and position_size_pct, 10000 and 2.0, are *)
(* among the engines NewEngine builds.                                   *)
BaseBtConfig ==
    [commission |-> 0, slippage |-> 0, max_open_trades |-> 1,
     position_size_pct |-> EngineConfig.position_size_pct]

CurrentEngine == Engine(balance, trades, open_trades, trade_counter, close_log)

SetEngine(e) ==
    /\ balance' = e.balance
    /\ trades' = e.trades
    /\ open_trades' = e.open_trades
    /\ trade_counter' = e.trade_counter
    /\ close_log' = e.close_log

(* no method of the engine has been called directly *)
NoDirect == [n |-> 0, op |-> "none"]

(* the caller of run has not run anything yet *)
NoRerun == [n |-> 0]

BtInit ==
    /\ bt_pc = "idle"
    /\ bt_df = << >>
    /\ bt_i = 0
    /\ balance = RInt(EngineConfig.initial_balance)
    /\ trades = << >>
    /\ open_trades = << >>
    /\ trade_counter = 0
    /\ equity_curve = << >>
    /\ strategy_calls = {}
    /\ close_log = << >>
    /\ result = NoResult
    /\ bt_dates = <<0, 0>>
    /\ rerun = NoRerun
    /\ last_direct = NoDirect

(* a plausible slip: the strategy is still asked when the limit is reached *)
HasFreeSlotInclusive(open, max_open_trades) == Len(open) <= max_open_trades

(* run: if len(self.open_trades) < max_open_trades *)
HasFreeSlot(open, max_open_trades) == Len(open) < max_open_trades

(* a plausible slip: reset keeps the balance of the previous run *)
ResetKeepsBalance == Engine(balance, << >>, << >>, 0, << >>)

(* BacktestEngine.reset: the fields a run starts from *)
Reset == Engine(RInt(EngineConfig.initial_balance), << >>, << >>, 0, << >>)

(* run up to its loop: reset, the date filter, the empty-range error; the *)
(* histories of the previous run are dropped with its trades              *)
RunEnter(series, dates, max_open_trades) ==
    /\ bt_dates' = dates
    /\ bt_df' = FilterDates(series, dates[1], dates[2])
    /\ bt_config' = [bt_config EXCEPT !.max_open_trades = max_open_trades]
    /\ bt_pc' = IF Len(bt_df') = 0 THEN "error" ELSE "loop"
    /\ bt_i' = 0
    /\ SetEngine(Reset)
    /\ equity_curve' = << >>
    /\ strategy_calls' = {}
    /\ UNCHANGED <<result, last_direct, notBtVars>>

(* run, called on a fresh engine *)
RunStart(series, dates, max_open_trades) ==
    /\ bt_pc = "idle"
    /\ RunEnter(series, dates, max_open_trades)
    /\ UNCHANGED rerun

(* a plausible slip: the equity point is the realized balance alone *)
EquityRealizedOnly(e, candle) == e.balance

(* run: open_pnl = sum(...); self.equity_curve.append(self.balance + open_pnl) *)
EquityPoint(e, candle) ==
    RAdd(e.balance, OpenPnl(e.trades, e.open_trades, candle.close))

(* a plausible slip: the candidate is opened before the exits are checked *)
CandlePassEntryFirst(answer) ==
    /\ bt_pc = "loop"
    /\ bt_i < Len(bt_df)
    /\ LET candle == bt_df[bt_i + 1]
           asked == HasFreeSlot(open_trades, bt_config.max_open_trades)
           e1 == IF asked /\ answer # NoCandidate
                 THEN OpenTrade(CurrentEngine, answer, candle.time, bt_config)
                 ELSE CurrentEngine
           e2 == CheckAndCloseTrades(e1, candle, bt_config)
       IN  /\ asked \/ answer = NoCandidate
           /\ equity_curve' = Append(equity_curve, EquityPoint(e2, candle))
           /\ strategy_calls' = IF asked THEN strategy_calls \cup {candle.time}
                                 ELSE strategy_calls
           /\ SetEngine(e2)
    /\ bt_i' = bt_i + 1
    /\ UNCHANGED <<bt_pc, bt_config, bt_df, bt_dates, result, last_direct,
                   notBtVars>>

(* one pass of the loop of run: exits, the equity point, at most one entry; *)
(* answer is what strategy_func returns if it is called                    *)
CandlePass(answer) ==
    /\ bt_pc = "loop"
    /\ bt_i < Len(bt_df)
    /\ LET candle == bt_df[bt_i + 1]
           e1 == CheckAndCloseTrades(CurrentEngine, candle, bt_config)
           asked == HasFreeSlot(e1.open_trades, bt_config.max_open_trades)
           e2 == IF asked /\ answer # NoCandidate
                 THEN OpenTrade(e1, answer, candle.time, bt_config)
                 ELSE e1
       IN  /\ asked \/ answer = NoCandidate
           /\ equity_curve' = Append(equity_curve, EquityPoint(e1, candle))
           /\ strategy_calls' = IF asked THEN strategy_calls \cup {candle.time}
                                 ELSE strategy_calls
           /\ SetEngine(e2)
    /\ bt_i' = bt_i + 1
    /\ UNCHANGED <<bt_pc, bt_config, bt_df, bt_dates, result, last_direct,
                   notBtVars>>

(* a pass of the loop of run with any strategy *)
ProcessCandle(answer) ==
    /\ CandlePass(answer)
    /\ UNCHANGED rerun

(* the end of run: the remaining open trades are closed at the final *)
(* candle's close and the result is built                            *)
RunLeave ==
    /\ bt_pc = "loop"
    /\ bt_i = Len(bt_df)
    /\ LET e == ForceClose(CurrentEngine, open_trades, bt_df[Len(bt_df)])
       IN  /\ SetEngine(e)
           /\ result' = CalculateMetrics(e.trades, e.balance, equity_curve)
    /\ bt_pc' = "done"
    /\ UNCHANGED <<bt_config, bt_df, bt_i, bt_dates, equity_curve,
                   strategy_calls, last_direct, notBtVars>>

(* the return of run on a fresh engine *)
RunFinish ==
    /\ RunLeave
    /\ UNCHANGED rerun

---------------------------------------------------------------------------
(* The loop of start(), step by step, with a stop request from outside *)

(* who runs the loop: RealtimeSignalGenerator.start or SignalService.start *)
LoopOwners == {"generator", "service"}

(* max_iterations given to start: 0 is the argument 0 or None, which the *)
(* test `if max_iterations and ...` of start() does not tell apart        *)
MaxIterationsChoices == 0..MaxIterations

(* what data_feed.get_latest_candles does: it returns candles, returns an *)
(* empty frame, or raises; "unusable" is a frame that is not empty and    *)
(* that the rest of run_once, which reads df['close'] and calls evaluate  *)
(* outside any try, raises on                                             *)
FetchOutcomes == {"candles", "empty", "raises", "unusable"}

(* before start() is called *)
NoLoop ==
    [owner |-> "none", pc |-> "idle", is_running |-> FALSE,
     is_connected |-> FALSE, iteration |-> 0, max_iterations |-> 0,
     total_candles_processed |-> 0, last_fetch |-> "none",
     stop_requested |-> FALSE, stop_pc |-> "none", stop_iteration |-> 0,
     ended_why |-> "none"]

(* stop(): RealtimeSignalGenerator.stop clears is_running and disconnects *)
(* the feed; SignalService.stop returns at once if is_running is false    *)
StopOf(l) ==
    IF l.owner = "service" /\ ~l.is_running THEN l
    ELSE [l EXCEPT !.is_running = FALSE, !.is_connected = FALSE]

(* the loop is left: by the while test, by break, or by an exception that *)
(* the handlers of start() log; finally: self.stop()                      *)
Leave(l, why) ==
    [StopOf(l) EXCEPT !.pc = "ended", !.ended_why = why]

(* start(max_iterations) is called: the feed is not connected and start *)
(* calls data_feed.connect(), which blocks on the network              *)
LoopStart(owner, max_iterations) ==
    /\ loop.pc = "idle"
    /\ loop' = [loop EXCEPT !.owner = owner, !.pc = "connecting",
                            !.max_iterations = max_iterations]
    /\ UNCHANGED notLoopVars

(* data_feed.connect() returns: True after it set is_connected, or False; *)
(* on False the generator raises ConnectionError and the service returns *)
(* through its finally, where stop() finds is_running false              *)
LoopConnect(connect_ok) ==
    /\ loop.pc = "connecting"
    /\ loop' = IF connect_ok
               THEN [loop EXCEPT !.pc = "connected", !.is_connected = TRUE]
               ELSE [loop EXCEPT !.pc = "ended", !.ended_why = "connect"]
    /\ UNCHANGED notLoopVars

(* from the return of connect() to the loop: the generator sets           *)
(* is_running at once; the service first builds the strategy, the         *)
(* validator, the generator and the subscribers, and an exception there   *)
(* (setup_ok false) is logged by the handler of start() and followed by   *)
(* stop(), which returns at once as is_running was never set              *)
LoopEnter(setup_ok) ==
    /\ loop.pc = "connected"
    /\ loop.owner = "generator" => setup_ok
    /\ loop' = IF setup_ok
               THEN [loop EXCEPT !.pc = "top", !.is_running = TRUE]
               ELSE Leave(loop, "fatal")
    /\ UNCHANGED notLoopVars

(* while self.is_running: *)
WhileTest ==
    /\ loop.pc = "top"
    /\ loop' = IF loop.is_running THEN [loop EXCEPT !.pc = "body"]
               ELSE Leave(loop, "not_running")
    /\ UNCHANGED notLoopVars

(* if max_iterations and iteration >= max_iterations: break; iteration += 1 *)
IterationBegin ==
    /\ loop.pc = "body"
    /\ IF loop.max_iterations # 0 /\ loop.iteration >= loop.max_iterations
       THEN loop' = Leave(loop, "limit")
       ELSE /\ loop.iteration < MaxIterations
            /\ loop' = [loop EXCEPT !.iteration = @ + 1, !.pc = "run_once"]
    /\ UNCHANGED notLoopVars

(* run_once: if not self.data_feed.is_connected: raise ConnectionError *)
RunOnceEnter ==
    /\ loop.pc = "run_once"
    /\ loop' = IF loop.is_connected THEN [loop EXCEPT !.pc = "fetch"]
               ELSE Leave([loop EXCEPT !.last_fetch = "not_connected"], "fatal")
    /\ UNCHANGED notLoopVars

(* get_latest_candles: if not self.is_connected: raise ConnectionError; *)
(* otherwise the request for the history is sent, which blocks         *)
FetchEnter ==
    /\ loop.pc = "fetch"
    /\ loop' = IF loop.is_connected THEN [loop EXCEPT !.pc = "history"]
               ELSE Leave([loop EXCEPT !.last_fetch = "not_connected"], "fatal")
    /\ UNCHANGED notLoopVars

(* the request for the history answers, whatever happened to is_connected *)
(* meanwhile, and run_once goes on to its end; an exception leaves        *)
(* run_once and the loop, from get_latest_candles before the candle is    *)
(* counted, from the rest of run_once after it                            *)
Fetch(outcome) ==
    /\ loop.pc = "history"
    /\ loop' =
           IF outcome = "raises"
           THEN Leave([loop EXCEPT !.last_fetch = "raised"], "fatal")
           ELSE IF outcome = "empty"
           THEN [loop EXCEPT !.last_fetch = "empty", !.pc = "after_run"]
           ELSE IF outcome = "unusable"
           THEN Leave([loop EXCEPT !.last_fetch = "candles",
                                   !.total_candles_processed = @ + 1], "fatal")
           ELSE [loop EXCEPT !.last_fetch = "candles", !.pc = "after_run",
                             !.total_candles_processed = @ + 1]
    /\ UNCHANGED notLoopVars

(* after run_once: the generator waits for the candle close; the service *)
(* logs its heartbeat and waits only if self.is_running                  *)
AfterRunOnce ==
    /\ loop.pc = "after_run"
    /\ loop' = IF loop.owner = "service" /\ ~loop.is_running
               THEN [loop EXCEPT !.pc = "top"]
               ELSE [loop EXCEPT !.pc = "waiting"]
    /\ UNCHANGED notLoopVars

(* wait_for_candle_close / _wait_with_price_updates returns *)
WaitEnd ==
    /\ loop.pc = "waiting"
    /\ loop' = [loop EXCEPT !.pc = "top"]
    /\ UNCHANGED notLoopVars

(* stop() called while start() is running: generator.stop() from the thread *)
(* of TimeframeWorker.stop, service.stop() from the signal handler          *)
StopRequest ==
    /\ loop.pc \notin {"idle", "ended"}
    /\ ~loop.stop_requested
    /\ loop' = [StopOf(loop) EXCEPT !.stop_requested = TRUE,
                                    !.stop_pc = loop.pc,
                                    !.stop_iteration = loop.iteration]
    /\ UNCHANGED notLoopVars

---------------------------------------------------------------------------
(* _publish_signal on its own: a list of subscribers of every kind of      *)
(* callable, each of which may raise when it is called                     *)

MaxSubscribers == 3

(* what add_subscriber accepts: a plain function, a bound method, or an   *)
(* instance of a class with __call__ (DatabaseSubscriber, TelegramSubscriber, *)
(* DeduplicationSubscriber ... are of the last kind)                      *)
SubscriberPool ==
    [kind : {"function", "bound_method", "callable_object"}, raises : BOOLEAN]

(* hasattr(subscriber, '__name__'): functions carry __name__, a bound     *)
(* method hands out that of its function, an instance has none            *)
HasName(subscriber) == subscriber.kind \in {"function", "bound_method"}

NoPub == [subscribers |-> << >>, outcome |-> "none", called |-> {}, logged |-> {}]

(* the for loop of _publish_signal from subscriber i on: subscriber(signal) *)
(* in a try; the handler formats subscriber.__name__ into the log line,     *)
(* which raises AttributeError out of the handler when there is no __name__ *)
RECURSIVE PublishFrom(_, _, _, _)
PublishFrom(subs, i, called, logged) ==
    IF i > Len(subs)
    THEN [subscribers |-> subs, outcome |-> "returned", called |-> called,
          logged |-> logged]
    ELSE IF ~subs[i].raises
    THEN PublishFrom(subs, i + 1, called \cup {i}, logged)
    ELSE IF HasName(subs[i])
    THEN PublishFrom(subs, i + 1, called \cup {i}, logged \cup {i})
    ELSE [subscribers |-> subs, outcome |-> "raised",
          called |-> called \cup {i}, logged |-> logged]

(* RealtimeSignalGenerator.add_subscriber *)
AddSubscriber(callback) ==
    /\ pub.outcome = "none"
    /\ Len(pub.subscribers) < MaxSubscribers
    /\ pub' = [pub EXCEPT !.subscribers = Append(pub.subscribers, callback)]
    /\ UNCHANGED <<val, strat, perf, restVars>>

(* the end of run_once with a validated signal: _publish_signal(signal),  *)
(* outside any try, so what _publish_signal raises run_once raises        *)
Publish ==
    /\ pub.outcome = "none"
    /\ pub' = PublishFrom(pub.subscribers, 1, {}, {})
    /\ UNCHANGED <<val, strat, perf, restVars>>

---------------------------------------------------------------------------
(* A SignalValidator on its own: validate called with any sequence of      *)
(* candidates while the wall clock advances                                *)

MaxValClock == 3
MaxValidations == 3

(* how long before the call the candle of the candidate opened: an hour   *)
(* for the candle that closes now on a 1H feed, a day for a candle of a    *)
(* 1D feed or one replayed from the day before                             *)
CandleAges == {1, 24}

(* the candidates of the pipeline and five more.  Two have a reward of    *)
(* exactly 1.5 times the risk: with 2640.5 and 2665.5 the floats hold     *)
(* every price exactly and the ratio is 1.5; with 2635.2 and 2673.45 they *)
(* do not and the ratio comes out below 1.5.  One is just under 1.5, one  *)
(* has its entry exactly 5% above the close 2650.2, which the floats make *)
(* more than 0.05, and one has no take profit.                            *)
ValidatorCandidates ==
    CandidatePool \cup
    { Candidate("LONG", "Golden Fibonacci", 2650500, 2640500, 2665500, 65),
      Candidate("LONG", "Golden Fibonacci", 2650500, 2635200, 2673450, 65),
      Candidate("SHORT", "Golden Fibonacci", 2650500, 2660500, 2635501, 65),
      Candidate("LONG", "Golden Fibonacci", 2782710, 2772710, 2802710, 65),
      Candidate("LONG", "Momentum Equilibrium", 2650500, 2635200, NoTarget, 70) }

(* current_price: a close that its float holds exactly, more than 5%   *)
(* below the entry 2782.71, and one that its float does not hold, 5% *)
(* below it                                                          *)
ValidatorClosePrices == {2650000, 2650200}

NoValCall == [n |-> 0, ok |-> FALSE, raised |-> FALSE]

(* SignalValidator.__init__: recent_signals = []; accepted is the history *)
(* of everything validate returned                                        *)
NoVal == [now |-> 0, recent |-> << >>, accepted |-> {}, last |-> NoValCall]

(* the wall clock of the validator's process moves on by an hour *)
ValTick ==
    /\ val.now < MaxValClock
    /\ val' = [val EXCEPT !.now = val.now + 1]
    /\ UNCHANGED <<pub, strat, perf, restVars>>

(* validator.validate(signal, current_price, symbol, timeframe) *)
ValidateCall(c, current_price) ==
    /\ val.last.n < MaxValidations
    /\ LET res == Validate(val.recent, c, current_price, FeedSymbol, "1H", val.now)
       IN  val' = [val EXCEPT
                     !.recent = res.recent,
                     !.accepted = IF res.ok THEN val.accepted \cup {res.sig}
                                            ELSE val.accepted,
                     !.last = [n |-> val.last.n + 1, candidate |-> c,
                               ok |-> res.ok, raised |-> res.raised,
                               why |-> res.why, sig |-> res.sig,
                               accepted_before |-> val.accepted]]
    /\ UNCHANGED <<pub, strat, perf, restVars>>

---------------------------------------------------------------------------
(* GoldStrategy: the enable flags of the rules and evaluate.  What a rule  *)
(* finds in the candles is an input: 0 when it does not trigger, or the    *)
(* confidence of the candidate it returns, and the direction of that       *)
(* candidate.  A confidence is a float, a sum of the literals of the rule; *)
(* it is written in ten-thousandths, and a sum that comes out an ulp or    *)
(* two beside the decimal is written one unit beside it (7999 for          *)
(* 0.7999999999999999, 7001 for 0.7000000000000001), so that the integers  *)
(* are equal and ordered as the floats are.                                *)

MaxRuleChanges == 1

(* the rules in the order evaluate runs them, by their key in rules_enabled *)
RuleKeys ==
    << "rule_1_618_retracement", "rule_2_786_deep_discount",
       "rule_3_236_shallow_pullback", "rule_4_consolidation_break",
       "rule_5_ath_breakout_retest", "rule_6_50_momentum" >>

RuleKeySet == { RuleKeys[i] : i \in DOMAIN RuleKeys }

(* config['trend_lookback']: DEFAULT_CONFIG has 50, a caller may pass more *)
TrendLookbacks == {50, 100}

CandleIndexes == {59, 60, 99, 100}

(* result.confidence of a rule that triggers, every sum its increments  *)
(* can make: rule 1 is 0.5 + 0.2 (CHOCH) + 0.2 (pattern) + 0.1 (RSI);    *)
(* rule 2 is 0.6 + 0.2 (sweep) + 0.15 (pattern) with one of the two at   *)
(* least; rule 3 is 0.65 + 0.15 (BOS); rule 4 is 0.55 - 0.2 (against the *)
(* trend) + 0.15 or 0.1 (length of the consolidation); rule 5 is 0.6 +   *)
(* 0.2 (consolidation) + 0.1 (pattern); rule 6 is 0.5 + 0.2 (strong) +   *)
(* 0.1 (pattern) + 0.1 (BOS)                                             *)
RuleConfidences(k) ==
    CASE k = "rule_1_618_retracement" -> {5000, 6000, 7000, 7999, 8999, 9999}
      [] k = "rule_2_786_deep_discount" -> {7500, 8000, 9501}
      [] k = "rule_3_236_shallow_pullback" -> {6500, 8000}
      [] k = "rule_4_consolidation_break" -> {3501, 4501, 5000, 5500, 6500, 7001}
      [] k = "rule_5_ath_breakout_retest" -> {6000, 7000, 8000, 9000}
      [] k = "rule_6_50_momentum" -> {5000, 6000, 7000, 7999, 8999}

(* the confidences the model draws from: 0.5, 0.7000000000000001, *)
(* 0.7999999999999999 and 0.8                                      *)
ConfidenceSample == {5000, 7001, 7999, 8000}

(* per rule: 0, or a confidence of the sample that the rule can answer. *)
(* The rules read the same candles, so that not every combination can   *)
(* come from one frame: the set is a superset of what evaluate sees.    *)
RuleOutcomes ==
    { f \in [RuleKeySet -> {0} \cup ConfidenceSample] :
        \A k \in RuleKeySet :
            f[k] = 0 \/ f[k] \in RuleConfidences(k) }

(* lookback of _rule_5_ath_breakout_retest: below it the rule returns *)
(* untriggered                                                        *)
Rule5Lookback == 100

(* the rules that take their direction from the Fibonacci zone: LONG for *)
(* fib.direction 'up', SHORT for 'down'                                  *)
FibRules ==
    { "rule_1_618_retracement", "rule_2_786_deep_discount",
      "rule_3_236_shallow_pullback", "rule_6_50_momentum" }

(* result.direction of every rule, "none" for a rule that does not      *)
(* trigger: fib is the direction of the zone, breakout that of rule 4   *)
(* (close above or below the range), retest that of rule 5 (ATH or ATL) *)
DirectionsOf(outcomes, fib, breakout, retest) ==
    [k \in RuleKeySet |->
        IF outcomes[k] = 0 THEN "none"
        ELSE IF k \in FibRules THEN fib
        ELSE IF k = "rule_4_consolidation_break" THEN breakout
        ELSE retest]

TradeDirections == {"LONG", "SHORT"}

(* the directions the rules can answer with when they answer outcomes *)
RuleDirections(outcomes) ==
    { DirectionsOf(outcomes, fib, breakout, retest) :
          fib \in TradeDirections, breakout \in TradeDirections,
          retest \in TradeDirections }

NoEvaluate == [n |-> 0, ran |-> {}, signal |-> NoCandidate]

NoStrat == [made |-> "none", trend_lookback |-> 50, rules_enabled |-> << >>,
            changes |-> 0, last |-> NoEvaluate]

(* GoldStrategy.__init__ *)
GoldStrategyInit(trend_lookback) ==
    [made |-> "fresh", trend_lookback |-> trend_lookback,
     rules_enabled |-> [k \in RuleKeySet |-> TRUE],
     changes |-> 0, last |-> NoEvaluate]

(* SignalService._create_strategy, and RealtimeSignalGenerator.__init__  *)
(* when no strategy is passed: every key of rules_enabled is set to      *)
(* False, then rules_enabled['momentum_equilibrium'] = True              *)
CreateStrategy(by) ==
    LET fresh == GoldStrategyInit(50)
    IN  [fresh EXCEPT
           !.made = by,
           !.rules_enabled =
               [k \in DOMAIN fresh.rules_enabled \cup {"momentum_equilibrium"} |->
                   k = "momentum_equilibrium"]]

(* rules_enabled.get(key): None, which is false, for a key that is absent *)
RuleEnabled(rules_enabled, key) ==
    IF key \in DOMAIN rules_enabled THEN rules_enabled[key] ELSE FALSE

(* min_required of evaluate, with the trend lookback alone *)
MinRequiredTrendOnly(trend_lookback) == trend_lookback

(* min_required = max(self.config['trend_lookback'], 60) *)
MinRequired(trend_lookback) == IF trend_lookback > 60 THEN trend_lookback ELSE 60

(* the results list of evaluate: the triggered rules among the enabled *)
(* ones, in the order of RuleKeys                                      *)
Results(rules_enabled, outcomes) ==
    SelectSeq(RuleKeys, LAMBDA k : RuleEnabled(rules_enabled, k) /\ outcomes[k] > 0)

(* the first element of results *)
FirstOf(results, outcomes) == results[1]

(* max(results, key=lambda x: x.confidence): the first of the greatest *)
BestOf(results, outcomes) ==
    LET i == CHOOSE i \in DOMAIN results :
                 /\ \A j \in DOMAIN results : outcomes[results[j]] <= outcomes[results[i]]
                 /\ \A j \in 1..(i - 1) : outcomes[results[j]] < outcomes[results[i]]
    IN  results[i]

(* GoldStrategy.evaluate(df, current_idx): the rules it ran and the *)
(* signal it returned                                               *)
EvaluateResult(st, current_idx, outcomes, directions) ==
    IF current_idx < MinRequired(st.trend_lookback)
    THEN [ran |-> {}, signal |-> NoCandidate]
    ELSE LET results == Results(st.rules_enabled, outcomes)
             ran == { k \in RuleKeySet : RuleEnabled(st.rules_enabled, k) }
         IN  IF results = << >>
             THEN [ran |-> ran, signal |-> NoCandidate]
             ELSE LET best == BestOf(results, outcomes)
                  IN  [ran |-> ran,
                       signal |-> [direction |-> directions[best], rule |-> best,
                                   confidence |-> outcomes[best]]]

(* a strategy is built: by a test or a backtest (GoldStrategy(config)), *)
(* by the signal service, or by a generator that was given none         *)
StrategyMake(by, trend_lookback) ==
    /\ strat.made = "none"
    /\ strat' = IF by = "fresh" THEN GoldStrategyInit(trend_lookback)
                                ELSE CreateStrategy(by)
    /\ by # "fresh" => trend_lookback = 50
    /\ UNCHANGED <<pub, val, perf, restVars>>

(* GoldStrategy.set_rule_enabled *)
SetRuleEnabled(rule_name, enabled) ==
    /\ strat.made # "none"
    /\ strat.last.n = 0
    /\ strat.changes < MaxRuleChanges
    /\ strat' = [strat EXCEPT
                   !.changes = strat.changes + 1,
                   !.rules_enabled =
                       IF rule_name \in DOMAIN strat.rules_enabled
                       THEN [strat.rules_enabled EXCEPT ![rule_name] = enabled]
                       ELSE strat.rules_enabled]
    /\ UNCHANGED <<pub, val, perf, restVars>>

(* strategy.evaluate(df, current_idx), once per strategy: the flags of *)
(* the call are those of the state it leaves                           *)
Evaluate(current_idx, outcomes, directions) ==
    /\ strat.made # "none"
    /\ strat.last.n = 0
    /\ LET res == EvaluateResult(strat, current_idx, outcomes, directions)
       IN  strat' = [strat EXCEPT
                       !.last = [n |-> 1, current_idx |-> current_idx,
                                 outcomes |-> outcomes,
                                 directions |-> directions, ran |-> res.ran,
                                 signal |-> res.signal]]
    /\ UNCHANGED <<pub, val, perf, restVars>>

---------------------------------------------------------------------------
(* The performance computations on their own: a BacktestResult built from *)
(* a list of trades and an equity curve, and the statistics of the store  *)
(* over the same closed trades                                            *)

MaxTrades == 3
MaxCurve == 3

(* Trade.pnl after close, and 0.0 for a trade that is still open *)
PnlValues == {0 - 10, 0, 20}

EquityValues == {50, 100, 200}

NoMetrics == [total_trades |-> 0 - 1]

NoPerf == [trades |-> << >>, equity_curve |-> << >>,
           metrics |-> NoMetrics, stats |-> NoMetrics]

(* one more trade in BacktestResult.trades *)
AddTrade(is_open, pnl) ==
    /\ perf.metrics = NoMetrics
    /\ perf.stats = NoMetrics
    /\ Len(perf.trades) < MaxTrades
    /\ is_open => pnl = 0
    /\ perf' = [perf EXCEPT !.trades =
                   Append(perf.trades,
                          [status |-> IF is_open THEN "open"
                                      ELSE IF pnl > 0 THEN "closed_tp" ELSE "closed_sl",
                           pnl |-> RInt(pnl)])]
    /\ UNCHANGED <<pub, val, strat, restVars>>

(* one more point in BacktestResult.equity_curve *)
AddEquity(equity) ==
    /\ perf.metrics = NoMetrics
    /\ perf.stats = NoMetrics
    /\ Len(perf.equity_curve) < MaxCurve
    /\ perf' = [perf EXCEPT !.equity_curve = Append(perf.equity_curve, RInt(equity))]
    /\ UNCHANGED <<pub, val, strat, restVars>>

(* result.calculate_metrics() *)
CalculateMetricsCall ==
    /\ perf.metrics = NoMetrics
    /\ perf' = [perf EXCEPT !.metrics =
                   CalculateMetrics(perf.trades, RInt(EngineConfig.initial_balance),
                                    perf.equity_curve)]
    /\ UNCHANGED <<pub, val, strat, restVars>>

(* repository.get_performance_stats() with the closed trades as the *)
(* closed signals of the period                                     *)
GetPerformanceStatsCall ==
    /\ perf.stats = NoMetrics
    /\ perf' = [perf EXCEPT !.stats =
                   GetPerformanceStats(
                       SelectSeq(perf.trades, LAMBDA t : t.status # "open"))]
    /\ UNCHANGED <<pub, val, strat, restVars>>


---------------------------------------------------------------------------
(* DeduplicationSubscriber: a callable that asks the deduplicator and     *)
(* forwards a unique signal to the subscribers it wraps                   *)

MaxWrapped == 2

(* calls of the deduplication subscriber in one behaviour *)
MaxForwards == 2

(* wrapped is len(self.subscribers); ok_hashes is the history of the     *)
(* hashes of the signals that at least one wrapped subscriber took       *)
(* without raising                                                       *)
NoDsub == [wrapped |-> 0, ok_hashes |-> {},
           last |-> [n |-> 0, wrapped |-> 0, called |-> << >>, ok |-> {},
                     known |-> FALSE]]

(* a handler that lets the exception out of __call__: nothing is *)
(* called after the subscriber that raised                        *)
AfterSubscriberRaising(i, fails, rest) ==
    IF i \in fails THEN [called |-> << >>, ok |-> {}] ELSE rest

(* what follows subscriber i in the loop: the except handler logs the *)
(* failure and the loop goes on with the next subscriber              *)
AfterSubscriber(i, fails, rest) == rest

(* the for loop of __call__ from subscriber i on: subscriber(signal) in a *)
(* try whose handler logs subscriber.__class__.__name__ and goes on;      *)
(* fails are the subscribers that raise at this call                      *)
RECURSIVE Forward(_, _, _)
Forward(wrapped, fails, i) ==
    IF i > wrapped THEN [called |-> << >>, ok |-> {}]
    ELSE LET rest == AfterSubscriber(i, fails, Forward(wrapped, fails, i + 1))
         IN  [called |-> <<i>> \o rest.called,
              ok |-> (IF i \in fails THEN {} ELSE {i}) \cup rest.ok]

---------------------------------------------------------------------------
(* TechnicalAnalysis: swing points and the Fibonacci zone built from them. *)
(* Bars are numbered from 1; the prices of bars are whole dollars, the     *)
(* prices of a zone are thousandths of a dollar                            *)

MaxBars == 6

(* the bars of a DataFrame: high and low at three price levels *)
BarShapes ==
    { [high |-> 1, low |-> 1], [high |-> 2, low |-> 1],
      [high |-> 3, low |-> 2], [high |-> 3, low |-> 3] }

BarSeries == UNION { [1..n -> BarShapes] : n \in 0..MaxBars }

(* the arguments lookback and min_strength; the strategy passes *)
(* config['swing_lookback'] and config['swing_min_strength']    *)
SwingLookbacks == {1, 2}
MinStrengths == {1, 2}

NoFib == [direction |-> "none"]

NoTa == [op |-> "none", df |-> << >>, lookback |-> 0, min_strength |-> 0,
         swings |-> << >>, fib |-> NoFib]

(* highs[i] or lows[i] *)
BarValue(df, k, is_high) == IF is_high THEN df[k].high ELSE df[k].low

(* highs[i] > highs[i - j] and highs[i] > highs[i + j], or the same with *)
(* lows and <                                                            *)
Confirms(df, k, j, is_high) ==
    IF is_high
    THEN df[k].high > df[k - j].high /\ df[k].high > df[k + j].high
    ELSE df[k].low < df[k - j].low /\ df[k].low < df[k + j].low

(* detect_swing_points: the loop over j from j on; the first comparison *)
(* that fails clears the flag and breaks                                *)
RECURSIVE SwingScan(_, _, _, _, _)
SwingScan(df, k, lookback, j, is_high) ==
    IF j > lookback THEN [is_swing |-> TRUE, strength |-> 0]
    ELSE IF Confirms(df, k, j, is_high)
    THEN LET rest == SwingScan(df, k, lookback, j + 1, is_high)
         IN  [is_swing |-> rest.is_swing, strength |-> rest.strength + 1]
    ELSE [is_swing |-> FALSE, strength |-> 0]

(* detect_swing_points: what bar k appends for one kind of swing *)
SwingAt(df, k, lookback, min_strength, is_high) ==
    LET scan == SwingScan(df, k, lookback, 1, is_high)
    IN  IF scan.is_swing /\ scan.strength >= min_strength
        THEN << [index |-> k, price |-> BarValue(df, k, is_high),
                 is_high |-> is_high, strength |-> scan.strength] >>
        ELSE << >>

(* detect_swing_points: the loop over the bars from bar k on; the swing  *)
(* high of a bar is appended before its swing low and the sort by index *)
(* is stable                                                            *)
RECURSIVE SwingsFrom(_, _, _, _)
SwingsFrom(df, lookback, min_strength, k) ==
    IF k > Len(df) - lookback THEN << >>
    ELSE SwingAt(df, k, lookback, min_strength, TRUE)
         \o SwingAt(df, k, lookback, min_strength, FALSE)
         \o SwingsFrom(df, lookback, min_strength, k + 1)

(* TechnicalAnalysis.detect_swing_points: range(lookback, len - lookback) *)
(* is the bars lookback + 1 .. len - lookback                             *)
DetectSwingPoints(df, lookback, min_strength) ==
    SwingsFrom(df, lookback, min_strength, lookback + 1)

(* FibZone(...): level = swing_high - price_range * ratio *)
FibZoneOf(swing_low, swing_high, direction) ==
    LET price_range == swing_high - swing_low
    IN  [swing_low |-> swing_low * 1000,
         swing_high |-> swing_high * 1000,
         level_236 |-> swing_high * 1000 - price_range * 236,
         level_382 |-> swing_high * 1000 - price_range * 382,
         level_500 |-> swing_high * 1000 - price_range * 500,
         level_618 |-> swing_high * 1000 - price_range * 618,
         level_786 |-> swing_high * 1000 - price_range * 786,
         direction |-> direction]

(* GoldStrategy._get_fib_zones; NoFib stands for None *)
GetFibZones(df, swing_lookback, swing_min_strength) ==
    LET swings == DetectSwingPoints(df, swing_lookback, swing_min_strength)
        IsHigh(sp) == sp.is_high
        IsLow(sp) == ~sp.is_high
        highs == SelectSeq(swings, IsHigh)
        lows == SelectSeq(swings, IsLow)
    IN  IF Len(swings) < 2 THEN NoFib
        ELSE IF highs = << >> \/ lows = << >> THEN NoFib
        ELSE LET recent_high == highs[Len(highs)]
                 recent_low == lows[Len(lows)]
             IN  IF recent_high.index > recent_low.index
                 THEN FibZoneOf(recent_low.price, recent_high.price, "up")
                 ELSE FibZoneOf(recent_low.price, recent_high.price, "down")

(* TechnicalAnalysis(df) *)
TaCreate(df) ==
    /\ ta.op = "none"
    /\ ta' = [NoTa EXCEPT !.op = "created", !.df = df]
    /\ UNCHANGED <<dedupVars, pipeVars, btVars, loop, unitVars, mstop, dsub>>

(* ta.detect_swing_points(lookback, min_strength) *)
TaDetectSwingPoints(lookback, min_strength) ==
    /\ ta.op # "none"
    /\ ta' = [op |-> "detect", df |-> ta.df, lookback |-> lookback,
              min_strength |-> min_strength,
              swings |-> DetectSwingPoints(ta.df, lookback, min_strength),
              fib |-> NoFib]
    /\ UNCHANGED <<dedupVars, pipeVars, btVars, loop, unitVars, mstop, dsub>>

(* strategy._get_fib_zones(df, idx) with the swing settings of its config *)
TaGetFibZones(swing_lookback, swing_min_strength) ==
    /\ ta.op # "none"
    /\ ta' = [op |-> "fib", df |-> ta.df, lookback |-> swing_lookback,
              min_strength |-> swing_min_strength,
              swings |-> DetectSwingPoints(ta.df, swing_lookback, swing_min_strength),
              fib |-> GetFibZones(ta.df, swing_lookback, swing_min_strength)]
    /\ UNCHANGED <<dedupVars, pipeVars, btVars, loop, unitVars, mstop, dsub>>

---------------------------------------------------------------------------
(* GoldStrategy._rule_6_50_momentum: the signal of the 50% rule. The zone *)
(* is in thousandths of a dollar, the candle and the ATR in whole dollars *)

(* config['fib_tolerance'] = 0.015, in thousandths *)
FibTolerancePermille == 15

(* config['default_rr_ratio'] = 2.0 *)
DefaultRrRatio == 2

NoRule == [triggered |-> FALSE]

(* GoldStrategy._is_near_level, price and level in thousandths:           *)
(*     tolerance = level * 0.015;  abs(price - level) <= tolerance        *)
(* on the floats nearest to the two decimals.  Away from the boundary the *)
(* two sides differ by a millionth of a dollar at least and the decimals  *)
(* decide.  On the boundary (the distance is 1.5% of the level exactly)   *)
(* the subtraction is exact, the float 0.015 lies 0.32 of its ulp below   *)
(* the decimal, and the product is rounded to the nearest float: the test *)
(* holds when the product exceeds the point half an ulp below the         *)
(* distance.  The comparison is written in units of that half ulp over    *)
(* 3125, with the errors of the two floats from FloatError.  Prices that  *)
(* are whole or half dollars are floats exactly and the boundary belongs  *)
(* to the level for them.                                                 *)
IsNearLevel(price, level) ==
    LET distance == Abs(price - level)
    IN  IF level <= 0 \/ 200 * distance # 3 * level
        THEN distance * 1000 <= level * FibTolerancePermille
        ELSE LET side == IF price >= level THEN 1 ELSE 0 - 1
                 kd == BinaryExponent(distance)
                 kl == BinaryExponent(level)
                 kp == BinaryExponent(price)
                 level_error == FloatError(level)
                 price_error == FloatError(price)
                 product == 3 * level_error * Pow2(kl - kd - 2)
                            - 25 * side * (price_error * Pow2(kp - kd + 1)
                                           - level_error * Pow2(kl - kd + 1))
                            + 3125
                 scaled == IF kd + 6 >= 0 THEN level \div Pow2(kd + 6)
                           ELSE level * Pow2(0 - (kd + 6))
                 exact == kd + 6 < 0 \/ level % Pow2(kd + 6) = 0
             IN  IF product > scaled THEN TRUE
                 ELSE IF product < scaled \/ ~exact THEN FALSE
                 ELSE level_error < 0

(* _rule_6_50_momentum; momentum, trend, pattern and structure are what *)
(* _get_momentum_strength, detect_trend, _detect_reversal_pattern and   *)
(* _detect_market_structure answer; prices of the result in thousandths *)
(* and its confidence in ten-thousandths: 0.5 + 0.2 is 0.7, and 0.1     *)
(* added to that float gives one an ulp below the decimal               *)
Rule6Momentum(momentum, fib, current, atr, trend, pattern, structure) ==
    LET at_50 == \/ IsNearLevel(current.close * 1000, fib.level_500)
                 \/ IsNearLevel(current.low * 1000, fib.level_500)
                 \/ IsNearLevel(current.high * 1000, fib.level_500)
        entry_price == current.close * 1000
        long_stop == fib.level_618 - atr * 300
        short_stop == fib.level_618 + atr * 300
        decimal == 5000 + (IF momentum = "strong" THEN 2000 ELSE 0)
                        + (IF pattern THEN 1000 ELSE 0)
                        + (IF structure = "bos" THEN 1000 ELSE 0)
        confidence == IF momentum = "strong" /\ (pattern \/ structure = "bos")
                      THEN decimal - 1 ELSE decimal
        Result(direction, stop_loss, risk) ==
            [triggered |-> TRUE, rule_name |-> "Rule6_50_Momentum",
             direction |-> direction, entry_price |-> entry_price,
             stop_loss |-> stop_loss,
             take_profit |-> IF direction = "long"
                             THEN entry_price + risk * DefaultRrRatio
                             ELSE entry_price - risk * DefaultRrRatio,
             confidence |-> IF confidence < 10000 THEN confidence ELSE 10000]
    IN  IF momentum = "weak" THEN NoRule
        ELSE IF fib = NoFib THEN NoRule
        ELSE IF ~at_50 THEN NoRule
        ELSE IF fib.direction = "up" /\ trend = "uptrend"
        THEN Result("long", long_stop, entry_price - long_stop)
        ELSE IF fib.direction = "down" /\ trend = "downtrend"
        THEN Result("short", short_stop, short_stop - entry_price)
        ELSE NoRule

(* the zones, candles and indicator values the rule is evaluated on *)
Rule6Zones == { NoFib, FibZoneOf(85, 135, "up"), FibZoneOf(85, 135, "down") }
Rule6Candles ==
    { [high |-> 111, low |-> 109, close |-> 110],
      [high |-> 109, low |-> 99, close |-> 100],
      [high |-> 101, low |-> 99, close |-> 100] }
Rule6Atrs == {3, 7}
MomentumStrengths == {"weak", "moderate", "strong"}
TrendDirections == {"uptrend", "downtrend", "sideways"}
MarketStructures == {"bos", "none"}

Rule6Results ==
    { Rule6Momentum(momentum, fib, current, atr, trend, pattern, structure) :
        momentum \in MomentumStrengths, fib \in Rule6Zones,
        current \in Rule6Candles, atr \in Rule6Atrs, trend \in TrendDirections,
        pattern \in BOOLEAN, structure \in MarketStructures }

(* GoldStrategy.evaluate with rule 6 alone: Signal(direction=best.direction, *)
(* ..., signal_name=best.rule_name), for the results in whole dollars        *)
Rule6Signals ==
    { BtSignal(r.direction, r.entry_price \div 1000, r.stop_loss \div 1000,
               r.take_profit \div 1000, r.rule_name) :
        r \in { x \in Rule6Results :
                  /\ x.triggered
                  /\ x.stop_loss % 1000 = 0
                  /\ x.take_profit % 1000 = 0 } }

---------------------------------------------------------------------------
(* MultiTimeframeService.stop *)

NoStop == [returned |-> FALSE, found |-> << >>, generators |-> << >>]

(* MultiTimeframeService.stop: worker.stop() for every worker created so  *)
(* far, which clears the worker's is_running and, if the worker's         *)
(* generator exists, calls generator.stop(): is_running of the generator  *)
(* is cleared and its feed disconnected if it is connected.  A worker     *)
(* whose thread is still initialising may or may not have its generator;  *)
(* in either case generator.start() has not been called, the generator's  *)
(* is_running is false already and its feed is not connected, so nothing  *)
(* reaches the thread: it stays where it is in _run.  A run_once that is  *)
(* in progress goes on.                                                   *)
MultiStop ==
    /\ ~mstop.returned
    /\ \E w \in Workers : owner_state[w] # "new"
    /\ mstop' = [returned |-> TRUE, found |-> [w \in Workers |-> owner_state[w]],
                 generators |-> [w \in Workers |-> gen_made[w]]]
    /\ owner_state' = [g \in Gens |->
                          IF g \in Workers /\ gen_made[g] /\ owner_state[g] = "running"
                          THEN "stopped" ELSE owner_state[g]]
    /\ feed_connected' = [g \in Gens |->
                             IF g \in Workers /\ gen_made[g] THEN FALSE
                             ELSE feed_connected[g]]
    /\ UNCHANGED <<now, db_rows, constructed, built_at, load_outcome, recent_signals,
                   wpc, wsig, wfiltered, wcur, wdirty, accepted, last_call, ncalls,
                   btVars, loop, unitVars, dsub, ta>>
    /\ UNCHANGED <<gen_made, subscribers, val_recent, candles_processed,
                   signals_generated, nruns, validated, delivered, last_run,
                   svc, run>>

---------------------------------------------------------------------------
(* The deduplicator as a state machine *)

TypeInit ==
    /\ now = 0
    /\ PipeInit
    /\ BtInit
    /\ loop = NoLoop
    /\ pub = NoPub
    /\ val = NoVal
    /\ strat = NoStrat
    /\ perf = NoPerf
    /\ mstop = NoStop
    /\ dsub = NoDsub
    /\ ta = NoTa
    /\ built_at = 0
    /\ recent_signals = EmptyCache
    /\ wpc = [w \in Workers |-> "idle"]
    /\ wsig = [w \in Workers |-> NoSignal]
    /\ wfiltered = [w \in Workers |-> EmptyCache]
    /\ wcur = [w \in Workers |-> FALSE]
    /\ wdirty = [w \in Workers |-> FALSE]
    /\ accepted = {}
    /\ last_call = NoCall
    /\ ncalls = 0

(* SignalDeduplicator.__init__ *)
Construct ==
    /\ ~constructed
    /\ \E mode \in LoadModes :
          LET res == LoadRecentSignalsFromDb(mode, db_rows, now)
          IN  /\ recent_signals' = res.cache
              /\ load_outcome' = res.outcome
    /\ constructed' = TRUE
    /\ built_at' = now
    /\ UNCHANGED <<now, db_rows, wpc, wsig, wfiltered, wcur, wdirty,
                   accepted, last_call, ncalls>>
    /\ UNCHANGED notDedupVars

(* an hour passes *)
Tick ==
    /\ now < MaxClock
    /\ now' = now + 1
    /\ UNCHANGED <<notPipeVars, pipeVars>>

(* SignalDeduplicator.is_duplicate, the calls following one another *)
IsDuplicate(w, s) ==
    /\ constructed
    /\ ncalls < MaxCalls
    /\ LET res == IsDuplicateResult(recent_signals, s, now)
       IN  /\ recent_signals' = res.cache
           /\ Returned(w, s, res.ret)
    /\ UNCHANGED <<now, db_rows, constructed, built_at, load_outcome, wpc, wsig,
                   wfiltered, wcur, wdirty>>
    /\ UNCHANGED notDedupVars

(* A deduplicator built without a store (no DATABASE_URL), used by the *)
(* workers one call at a time                                          *)
InitDedup ==
    /\ TypeInit
    /\ bt_config = BaseBtConfig
    /\ db_rows = << >>
    /\ constructed = TRUE
    /\ load_outcome = "no_url"

NextDedup ==
    \/ Tick
    \/ \E w \in Workers : \E s \in SignalsAt(w, now) : IsDuplicate(w, s)

SpecDedup == InitDedup /\ [][NextDedup]_vars

(* A restart: the store holds rows, the deduplicator is built and the *)
(* first candidate is offered                                         *)
InitRestart ==
    /\ TypeInit
    /\ bt_config = BaseBtConfig
    /\ db_rows \in Tables
    /\ constructed = FALSE
    /\ load_outcome = "none"

FirstIsDuplicate(w, s) ==
    /\ ncalls = 0
    /\ IsDuplicate(w, s)

NextRestart ==
    \/ Construct
    \/ Tick
    \/ \E w \in Workers : \E s \in SignalsAt(w, now) : FirstIsDuplicate(w, s)

SpecRestart == InitRestart /\ [][NextRestart]_vars

---------------------------------------------------------------------------
(* is_duplicate called by the worker threads at once.  The class holds no  *)
(* lock, so the interpreter can switch threads between the statements of   *)
(* is_duplicate: building the filtered dict, assigning it, testing the     *)
(* hash, reading or storing the entry.                                     *)

InFlight == {w \in Workers : wpc[w] # "idle"}

workerUnchanged ==
    UNCHANGED <<now, db_rows, constructed, built_at, load_outcome, notDedupVars>>

(* the call begins: the fingerprint and its hash are local *)
Begin(w, s) ==
    /\ constructed
    /\ wpc[w] = "idle"
    /\ ncalls + Cardinality(InFlight) < MaxThreadCalls
    /\ wpc' = [wpc EXCEPT ![w] = "cleanup"]
    /\ wsig' = [wsig EXCEPT ![w] = s]
    /\ workerUnchanged
    /\ UNCHANGED <<recent_signals, wfiltered, wcur, wdirty, accepted, last_call, ncalls>>

(* _cleanup_old_signals: the comprehension over recent_signals.items() *)
CleanupRead(w) ==
    /\ wpc[w] = "cleanup"
    /\ wfiltered' = [wfiltered EXCEPT ![w] = CleanupOldSignals(recent_signals, now)]
    /\ wcur' = [wcur EXCEPT ![w] = TRUE]
    /\ wdirty' = [wdirty EXCEPT ![w] = FALSE]
    /\ wpc' = [wpc EXCEPT ![w] = "assign"]
    /\ workerUnchanged
    /\ UNCHANGED <<recent_signals, wsig, accepted, last_call, ncalls>>

(* _cleanup_old_signals: self.recent_signals = {...}; what another thread *)
(* stored in the old dict meanwhile is gone                               *)
CleanupAssign(w) ==
    /\ wpc[w] = "assign"
    /\ recent_signals' = wfiltered[w]
    /\ wcur' = [v \in Workers |-> FALSE]
    /\ wdirty' = [wdirty EXCEPT ![w] = FALSE]
    /\ wfiltered' = [wfiltered EXCEPT ![w] = EmptyCache]
    /\ wpc' = [wpc EXCEPT ![w] = "check"]
    /\ workerUnchanged
    /\ UNCHANGED <<wsig, accepted, last_call, ncalls>>

(* the dict grew while the comprehension iterated over it: RuntimeError *)
(* (dictionary changed size during iteration) leaves is_duplicate       *)
CleanupRaise(w) ==
    /\ wpc[w] = "assign"
    /\ wdirty[w]
    /\ wpc' = [wpc EXCEPT ![w] = "idle"]
    /\ wsig' = [wsig EXCEPT ![w] = NoSignal]
    /\ wfiltered' = [wfiltered EXCEPT ![w] = EmptyCache]
    /\ wcur' = [wcur EXCEPT ![w] = FALSE]
    /\ wdirty' = [wdirty EXCEPT ![w] = FALSE]
    /\ Returned(w, wsig[w], "RuntimeError")
    /\ workerUnchanged
    /\ UNCHANGED recent_signals

(* if signal_hash in self.recent_signals *)
Check(w) ==
    /\ wpc[w] = "check"
    /\ wpc' = [wpc EXCEPT ![w] =
                  IF ToHash(Fingerprint(wsig[w])) \in DOMAIN recent_signals
                  THEN "lookup" ELSE "insert"]
    /\ workerUnchanged
    /\ UNCHANGED <<recent_signals, wsig, wfiltered, wcur, wdirty, accepted,
                   last_call, ncalls>>

(* existing = self.recent_signals[signal_hash]; return True *)
Lookup(w) ==
    /\ wpc[w] = "lookup"
    /\ wpc' = [wpc EXCEPT ![w] = "idle"]
    /\ wsig' = [wsig EXCEPT ![w] = NoSignal]
    /\ Returned(w, wsig[w],
                IF ToHash(Fingerprint(wsig[w])) \in DOMAIN recent_signals
                THEN "True" ELSE "KeyError")
    /\ workerUnchanged
    /\ UNCHANGED <<recent_signals, wfiltered, wcur, wdirty>>

(* self.recent_signals[signal_hash] = fingerprint; return False *)
Insert(w) ==
    LET fp == Fingerprint(wsig[w])
        h == ToHash(fp)
    IN  /\ wpc[w] = "insert"
        /\ recent_signals' = Put(recent_signals, h, fp)
        /\ wdirty' = [v \in Workers |->
                         IF /\ v # w
                            /\ wpc[v] = "assign"
                            /\ wcur[v]
                            /\ h \notin DOMAIN recent_signals
                         THEN TRUE ELSE wdirty[v]]
        /\ wpc' = [wpc EXCEPT ![w] = "idle"]
        /\ wsig' = [wsig EXCEPT ![w] = NoSignal]
        /\ Returned(w, wsig[w], "False")
        /\ workerUnchanged
        /\ UNCHANGED <<wfiltered, wcur>>

NextWorkers ==
    \/ Tick
    \/ \E w \in Workers : \E s \in SignalsAt(w, now) : Begin(w, s)
    \/ \E w \in Workers : CleanupRead(w)
    \/ \E w \in Workers : CleanupAssign(w)
    \/ \E w \in Workers : CleanupRaise(w)
    \/ \E w \in Workers : Check(w)
    \/ \E w \in Workers : Lookup(w)
    \/ \E w \in Workers : Insert(w)

SpecWorkers == InitDedup /\ [][NextWorkers]_vars

---------------------------------------------------------------------------
(* The owners of the generators *)

(* what a step of an owner before its loop leaves alone *)
runVars == <<val_recent, candles_processed, signals_generated, nruns,
             validated, delivered, last_run, run>>

(* TimeframeWorker.start *)
WorkerStart(w) ==
    /\ owner_state[w] = "new"
    /\ owner_state' = [owner_state EXCEPT ![w] = "started"]
    /\ UNCHANGED <<now, notPipeVars, gen_made, feed_connected, subscribers,
                   runVars, svc>>

(* TimeframeWorker._run to the assignment of self.generator: the feed,   *)
(* the strategy, the validator and the generator are built.              *)
(* create_datafeed is given no feed_type and reads DATAFEED_TYPE from    *)
(* the environment; for a value it does not know it raises ValueError,   *)
(* and the handler of _run clears is_running: the thread ends with no    *)
(* generator.                                                            *)
WorkerMakeGenerator(w, feed_ok) ==
    /\ owner_state[w] = "started"
    /\ ~gen_made[w]
    /\ IF feed_ok
       THEN /\ gen_made' = [gen_made EXCEPT ![w] = TRUE]
            /\ UNCHANGED owner_state
       ELSE /\ owner_state' = [owner_state EXCEPT ![w] = "failed"]
            /\ UNCHANGED gen_made
    /\ UNCHANGED <<now, notPipeVars, feed_connected, subscribers, runVars, svc>>

(* TimeframeWorker._run from there: DatabaseSubscriber(...) opens the     *)
(* database; db_subscriber.on_signal is then read, and no subscriber      *)
(* class has that attribute: AttributeError, caught by the handler of     *)
(* _run, which clears is_running, as it does when the database cannot be  *)
(* opened.  generator.start is not reached.                               *)
WorkerRun(w) ==
    /\ owner_state[w] = "started"
    /\ gen_made[w]
    /\ owner_state' = [owner_state EXCEPT ![w] = "failed"]
    /\ UNCHANGED <<now, notPipeVars, gen_made, feed_connected, subscribers,
                   runVars, svc>>

(* SignalService.start to the call of connect(): an invalid               *)
(* configuration returns at once.  stop() does nothing from here to the   *)
(* loop, as is_running is still false.                                    *)
ServiceStart(config_ok, enable_database, enable_logger, enable_console) ==
    /\ owner_state["svc"] = "new"
    /\ IF config_ok
       THEN /\ owner_state' = [owner_state EXCEPT !["svc"] = "starting"]
            /\ svc' = [pc |-> "connect", enable_database |-> enable_database,
                       enable_logger |-> enable_logger,
                       enable_console |-> enable_console]
       ELSE /\ owner_state' = [owner_state EXCEPT !["svc"] = "stopped"]
            /\ svc' = [NoSvc EXCEPT !.pc = "done"]
    /\ UNCHANGED <<now, notPipeVars, gen_made, feed_connected, subscribers, runVars>>

(* data_feed.connect() in SignalService.start: a feed that does not       *)
(* connect returns through stop(), which does nothing                     *)
ServiceConnect(connect_ok) ==
    /\ svc.pc = "connect"
    /\ IF connect_ok
       THEN /\ feed_connected' = [feed_connected EXCEPT !["svc"] = TRUE]
            /\ svc' = [svc EXCEPT !.pc = "generator"]
            /\ UNCHANGED owner_state
       ELSE /\ owner_state' = [owner_state EXCEPT !["svc"] = "stopped"]
            /\ svc' = [svc EXCEPT !.pc = "done"]
            /\ UNCHANGED feed_connected
    /\ UNCHANGED <<now, notPipeVars, gen_made, subscribers, runVars>>

(* the strategy, the validator and the generator of SignalService.start *)
ServiceMakeGenerator ==
    /\ svc.pc = "generator"
    /\ gen_made' = [gen_made EXCEPT !["svc"] = TRUE]
    /\ svc' = [svc EXCEPT !.pc = "database"]
    /\ UNCHANGED <<now, notPipeVars, owner_state, feed_connected, subscribers,
                   runVars>>

(* one of the three tests of SignalService._setup_subscribers.  The       *)
(* constructor of DatabaseSubscriber opens the database and that of       *)
(* LoggerSubscriber the log file; when it raises, start logs the error    *)
(* and returns through stop(), which does nothing: is_running is false,   *)
(* the feed stays connected and the subscribers added so far stay.        *)
(* ConsoleSubscriber's constructor opens nothing.                         *)
ServiceSetupSubscriber(ok) ==
    /\ svc.pc \in {"database", "logger", "console"}
    /\ LET enabled == CASE svc.pc = "database" -> svc.enable_database
                        [] svc.pc = "logger" -> svc.enable_logger
                        [] svc.pc = "console" -> svc.enable_console
           subscriber == CASE svc.pc = "database" -> "DatabaseSubscriber"
                           [] svc.pc = "logger" -> "LoggerSubscriber"
                           [] svc.pc = "console" -> "ConsoleSubscriber"
           next == CASE svc.pc = "database" -> "logger"
                     [] svc.pc = "logger" -> "console"
                     [] svc.pc = "console" -> "ready"
       IN  /\ (~enabled \/ svc.pc = "console") => ok
           /\ IF ~enabled
              THEN /\ svc' = [svc EXCEPT !.pc = next]
                   /\ UNCHANGED <<owner_state, subscribers>>
              ELSE IF ok
              THEN /\ subscribers' = [subscribers EXCEPT !["svc"] =
                                         Append(@, subscriber)]
                   /\ svc' = [svc EXCEPT !.pc = next]
                   /\ UNCHANGED owner_state
              ELSE /\ owner_state' = [owner_state EXCEPT !["svc"] = "stopped"]
                   /\ svc' = [svc EXCEPT !.pc = "done"]
                   /\ UNCHANGED subscribers
    /\ UNCHANGED <<now, notPipeVars, gen_made, feed_connected, runVars>>

(* self.is_running = True in SignalService.start: the loop is entered *)
ServiceEnterLoop ==
    /\ svc.pc = "ready"
    /\ owner_state' = [owner_state EXCEPT !["svc"] = "running"]
    /\ svc' = [svc EXCEPT !.pc = "done"]
    /\ UNCHANGED <<now, notPipeVars, gen_made, feed_connected, subscribers,
                   runVars>>

(* the caller's script: feed.connect(); the script exits when the feed *)
(* does not connect                                                    *)
CallerConnect(connect_ok) ==
    /\ owner_state["caller"] = "new"
    /\ owner_state' = [owner_state EXCEPT !["caller"] =
                          IF connect_ok THEN "connected" ELSE "stopped"]
    /\ feed_connected' = [feed_connected EXCEPT !["caller"] = connect_ok]
    /\ UNCHANGED <<now, notPipeVars, gen_made, subscribers, runVars, svc>>

(* RealtimeSignalGenerator(data_feed, strategy, validator) with a       *)
(* GoldStrategy() and a SignalValidator(min_rr_ratio=1.5)               *)
CallerMakeGenerator ==
    /\ owner_state["caller"] = "connected"
    /\ gen_made' = [gen_made EXCEPT !["caller"] = TRUE]
    /\ owner_state' = [owner_state EXCEPT !["caller"] = "built"]
    /\ UNCHANGED <<now, notPipeVars, feed_connected, subscribers, runVars, svc>>

(* generator.add_subscriber(print_subscriber), a plain function: after *)
(* it the script calls run_once                                        *)
CallerAddSubscriber ==
    /\ owner_state["caller"] = "built"
    /\ subscribers' = [subscribers EXCEPT !["caller"] =
                          Append(@, "print_subscriber")]
    /\ owner_state' = [owner_state EXCEPT !["caller"] = "ready"]
    /\ UNCHANGED <<now, notPipeVars, gen_made, feed_connected, runVars, svc>>

(* generator.stop() at the end of the script, after run_once returned: *)
(* is_running is cleared and the feed disconnected                     *)
CallerStop ==
    /\ owner_state["caller"] = "ready"
    /\ run["caller"].pc = "idle"
    /\ owner_state' = [owner_state EXCEPT !["caller"] = "stopped"]
    /\ feed_connected' = [feed_connected EXCEPT !["caller"] = FALSE]
    /\ UNCHANGED <<now, notPipeVars, gen_made, subscribers, runVars, svc>>

(* an exception leaves run_once.  In the loop of start() the handler logs *)
(* it and finally calls stop(); the caller's script has no handler and    *)
(* ends where it is, the feed still connected                             *)
RunOnceRaises(g) ==
    /\ last_run' = [gen |-> g, n |-> run[g].n, result |-> "raised"]
    /\ run' = [run EXCEPT ![g] = RunIdle]
    /\ owner_state' = [owner_state EXCEPT ![g] =
                          IF g = "caller" THEN "failed"
                          ELSE IF @ = "running" THEN "stopped" ELSE @]
    /\ feed_connected' = [feed_connected EXCEPT ![g] =
                             IF g # "caller" /\ owner_state[g] = "running"
                             THEN FALSE ELSE @]

(* what a step of run_once that only reads and counts leaves alone *)
ownerVars == <<owner_state, gen_made, feed_connected, subscribers, svc>>

(* RealtimeSignalGenerator.run_once, as called by the loop of its owner *)
(* or by the caller's script, to the call of history(): the             *)
(* is_connected tests of run_once and of get_latest_candles have passed *)
RunOnceBegin(g) ==
    /\ owner_state[g] = IF g = "caller" THEN "ready" ELSE "running"
    /\ feed_connected[g]
    /\ run[g].pc = "idle"
    /\ nruns < MaxRuns
    /\ nruns' = nruns + 1
    /\ run' = [run EXCEPT ![g] = [pc |-> "fetching", n |-> nruns + 1]]
    /\ UNCHANGED <<now, notPipeVars, ownerVars, val_recent, candles_processed,
                   signals_generated, validated, delivered, last_run>>

(* get_latest_candles returns or raises, whatever stop() did meanwhile.  *)
(* An exception leaves run_once; an empty frame returns None; otherwise  *)
(* the candle is counted, and either the rest of run_once raises on the  *)
(* frame or generate_signal is called.  cand is what evaluate will make  *)
(* of the candles fetched, close their last close.                       *)
RunOnceFetched(g, outcome, cand, close) ==
    /\ run[g].pc = "fetching"
    /\ IF outcome = "raises"
       THEN /\ RunOnceRaises(g)
            /\ UNCHANGED candles_processed
       ELSE IF outcome = "empty"
       THEN /\ last_run' = [gen |-> g, n |-> run[g].n, result |-> "no_data"]
            /\ run' = [run EXCEPT ![g] = RunIdle]
            /\ UNCHANGED <<owner_state, feed_connected, candles_processed>>
       ELSE IF outcome = "unusable"
       THEN /\ candles_processed' = [candles_processed EXCEPT ![g] = @ + 1]
            /\ RunOnceRaises(g)
       ELSE /\ candles_processed' = [candles_processed EXCEPT ![g] = @ + 1]
            /\ run' = [run EXCEPT ![g] = [pc |-> "evaluating", n |-> run[g].n,
                                          cand |-> cand, close |-> close]]
            /\ UNCHANGED <<owner_state, feed_connected, last_run>>
    /\ UNCHANGED <<now, notPipeVars, gen_made, subscribers, svc, val_recent,
                   signals_generated, nruns, validated, delivered>>

(* generate_signal returns: evaluate, validate and the signal counter;  *)
(* a validated signal goes to _publish_signal, and what validate raises *)
(* leaves run_once                                                      *)
RunOnceEvaluated(g) ==
    /\ run[g].pc = "evaluating"
    /\ LET cand == run[g].cand
           n == run[g].n
       IN  IF cand = NoCandidate
           THEN /\ last_run' = [gen |-> g, n |-> n, result |-> "no_signal"]
                /\ run' = [run EXCEPT ![g] = RunIdle]
                /\ UNCHANGED <<signals_generated, val_recent, validated,
                               owner_state, feed_connected>>
           ELSE LET v == Validate(val_recent[g], cand, run[g].close, FeedSymbol,
                                  GenTimeframe(g), now)
                IN  IF v.raised
                    THEN /\ RunOnceRaises(g)
                         /\ UNCHANGED <<signals_generated, val_recent, validated>>
                    ELSE
                    /\ val_recent' = [val_recent EXCEPT ![g] = v.recent]
                    /\ UNCHANGED <<owner_state, feed_connected>>
                    /\ IF ~v.ok
                       THEN /\ last_run' = [gen |-> g, n |-> n, result |-> v.why]
                            /\ run' = [run EXCEPT ![g] = RunIdle]
                            /\ UNCHANGED <<signals_generated, validated>>
                       ELSE /\ signals_generated' =
                                   [signals_generated EXCEPT ![g] = @ + 1]
                            /\ validated' = validated \cup
                                   {[gen |-> g, cand |-> cand, sig |-> v.sig]}
                            /\ IF subscribers[g] = << >>
                               THEN /\ last_run' = [gen |-> g, n |-> n,
                                                    result |-> "published",
                                                    sig |-> v.sig]
                                    /\ run' = [run EXCEPT ![g] = RunIdle]
                               ELSE /\ run' = [run EXCEPT ![g] =
                                                  [pc |-> "publishing", n |-> n,
                                                   sig |-> v.sig, k |-> 1]]
                                    /\ UNCHANGED last_run
    /\ UNCHANGED <<now, notPipeVars, gen_made, subscribers, svc,
                   candles_processed, nruns, delivered>>

(* one turn of the loop of RealtimeSignalGenerator._publish_signal:       *)
(* subscriber(signal) for the next subscriber.  DatabaseSubscriber saves  *)
(* a row in the signals table, or logs the exception of save_signal; the  *)
(* subscribers the service attaches catch their own exceptions.  After    *)
(* the last subscriber run_once returns the signal.                       *)
RunOncePublish(g, saved) ==
    /\ run[g].pc = "publishing"
    /\ LET subscriber == subscribers[g][run[g].k]
           sig == run[g].sig
       IN  /\ subscriber # "DatabaseSubscriber" => saved
           /\ delivered' = delivered \cup
                  {[gen |-> g, sub |-> subscriber, sig |-> sig, at |-> now]}
           /\ db_rows' = IF subscriber = "DatabaseSubscriber" /\ saved
                         THEN Append(db_rows, SavedRow(sig))
                         ELSE db_rows
           /\ IF run[g].k < Len(subscribers[g])
              THEN /\ run' = [run EXCEPT ![g].k = @ + 1]
                   /\ UNCHANGED last_run
              ELSE /\ run' = [run EXCEPT ![g] = RunIdle]
                   /\ last_run' = [gen |-> g, n |-> run[g].n,
                                   result |-> "published", sig |-> sig]
    /\ UNCHANGED <<now, constructed, built_at, load_outcome, recent_signals,
                   wpc, wsig, wfiltered, wcur, wdirty, accepted, last_call, ncalls,
                   btVars, loop, unitVars, mstop, dsub, ta>>
    /\ UNCHANGED <<ownerVars, val_recent, candles_processed, signals_generated,
                   nruns, validated>>

(* SignalService.stop when is_running is set: it is cleared and the feed *)
(* disconnected; a run_once that is in progress goes on                   *)
ServiceStop ==
    /\ owner_state["svc"] = "running"
    /\ owner_state' = [owner_state EXCEPT !["svc"] = "stopped"]
    /\ feed_connected' = [feed_connected EXCEPT !["svc"] = FALSE]
    /\ UNCHANGED <<now, notPipeVars, gen_made, subscribers, runVars, svc>>

(* The deduplicator singleton is created by get_deduplicator, which no *)
(* owner calls: it does not exist in this specification.  No step of   *)
(* the pipeline waits for the clock, which stands at the hour of the   *)
(* one run_once the specification follows; the candles fetched are of  *)
(* that hour or older.                                                 *)
InitPipeline ==
    /\ TypeInit
    /\ bt_config = BaseBtConfig
    /\ db_rows = << >>
    /\ constructed = FALSE
    /\ load_outcome = "none"

NextPipeline ==
    \/ \E w \in Workers : WorkerStart(w)
    \/ \E w \in Workers, feed_ok \in BOOLEAN : WorkerMakeGenerator(w, feed_ok)
    \/ \E w \in Workers : WorkerRun(w)
    \/ \E config_ok \in BOOLEAN, d \in BOOLEAN, l \in BOOLEAN, c \in BOOLEAN :
          ServiceStart(config_ok, d, l, c)
    \/ \E connect_ok \in BOOLEAN : ServiceConnect(connect_ok)
    \/ ServiceMakeGenerator
    \/ \E ok \in BOOLEAN : ServiceSetupSubscriber(ok)
    \/ ServiceEnterLoop
    \/ \E g \in Gens : RunOnceBegin(g)
    \/ \E g \in Gens, outcome \in FetchOutcomes, close \in ClosePrices :
          \E cand \in CandidatesFor(g, now) :
              RunOnceFetched(g, outcome, cand, close)
    \/ \E g \in Gens : RunOnceEvaluated(g)
    \/ \E g \in Gens, saved \in BOOLEAN : RunOncePublish(g, saved)
    \/ ServiceStop
    \/ \E connect_ok \in BOOLEAN : CallerConnect(connect_ok)
    \/ CallerMakeGenerator
    \/ CallerAddSubscriber
    \/ CallerStop

SpecPipeline == InitPipeline /\ [][NextPipeline]_vars

---------------------------------------------------------------------------
(* The backtest as a specification *)

InitBacktest ==
    /\ TypeInit
    /\ db_rows = << >>
    /\ constructed = FALSE
    /\ load_outcome = "none"
    /\ bt_config \in [commission : Commissions, slippage : Slippages,
                       max_open_trades : {1},
                       position_size_pct : {EngineConfig.position_size_pct}]

NextBacktest ==
    \/ \E series \in CandleSeries, dates \in DateRanges,
          max_open_trades \in MaxOpenTradesChoices :
              RunStart(series, dates, max_open_trades)
    \/ \E answer \in StrategySignals \cup {NoCandidate} : ProcessCandle(answer)
    \/ RunFinish

SpecBacktest == InitBacktest /\ [][NextBacktest]_vars

---------------------------------------------------------------------------
(* One engine run twice on the same inputs with a deterministic strategy *)

RerunShapes ==
    { [high |-> 101, low |-> 99, close |-> 100],
      [high |-> 106, low |-> 94, close |-> 103] }

RerunSeries == UNION { [1..n -> RerunShapes] : n \in 0..MaxCandles }

RerunDateRanges == { <<0, 0>>, <<2, 0>> }

(* what the strategy of the two runs may return *)
RerunAnswers ==
    { BtSignal("long", 100, 98, 104, "Golden Fibonacci"),
      BtSignal("short", 100, 102, 96, "ATH Retest"),
      NoCandidate }

(* the first call of run; the caller keeps the arguments *)
FirstRun(series, dates, max_open_trades) ==
    /\ rerun.n = 0
    /\ bt_pc = "idle"
    /\ RunEnter(series, dates, max_open_trades)
    /\ rerun' = [n |-> 1, series |-> series, dates |-> dates,
                 max_open_trades |-> max_open_trades, answers |-> << >>]

(* a pass of the loop of the first run; what strategy_func(df, i) returned *)
(* is what it returns for (df, i) in the second run                        *)
FirstRunCandle(answer) ==
    /\ rerun.n = 1
    /\ CandlePass(answer)
    /\ rerun' = [rerun EXCEPT !.answers = Append(@, answer)]

(* the second call of run on the same engine object, with the arguments of *)
(* the first; the caller keeps what the first call returned or raised      *)
SecondRun ==
    /\ rerun.n = 1
    /\ bt_pc \in {"done", "error"}
    /\ RunEnter(rerun.series, rerun.dates, rerun.max_open_trades)
    /\ rerun' = [rerun EXCEPT !.n = 2] @@
                    [first |-> IF bt_pc = "done" THEN result ELSE [raised |-> TRUE]]

(* a pass of the loop of the second run: the strategy, if it is called, *)
(* returns what it returned for this candle in the first run            *)
ReplayCandle ==
    /\ rerun.n = 2
    /\ bt_pc = "loop"
    /\ bt_i < Len(rerun.answers)
    /\ \E answer \in {rerun.answers[bt_i + 1], NoCandidate} :
           /\ CandlePass(answer)
           /\ \/ answer = rerun.answers[bt_i + 1]
              \/ bt_df[bt_i + 1].time \notin strategy_calls'
    /\ UNCHANGED rerun

InitRerun ==
    /\ TypeInit
    /\ db_rows = << >>
    /\ constructed = FALSE
    /\ load_outcome = "none"
    /\ bt_config \in [commission : Commissions, slippage : Slippages,
                       max_open_trades : {1},
                       position_size_pct : {EngineConfig.position_size_pct}]

NextRerun ==
    \/ \E series \in RerunSeries, dates \in RerunDateRanges,
          max_open_trades \in MaxOpenTradesChoices :
              FirstRun(series, dates, max_open_trades)
    \/ \E answer \in RerunAnswers : FirstRunCandle(answer)
    \/ RunFinish
    \/ SecondRun
    \/ ReplayCandle

SpecRerun == InitRerun /\ [][NextRerun]_vars

---------------------------------------------------------------------------
(* The engine's methods called directly, as its tests do *)

(* the arguments given to BacktestEngine(...) *)
InitialBalances == {100, 10000}
PositionSizePcts == {2, 50}

(* entry and stop given to calculate_position_size *)
SizingPrices == {98, 100, 102, 1990, 2000}

(* the signals given to open_trade *)
DirectSignals ==
    StrategySignals \cup
        { BtSignal("long", 99, 100, 104, "Golden Fibonacci"),
          BtSignal("long", 2000, 1990, 2020, "Golden Fibonacci") }

(* BacktestEngine(initial_balance, position_size_pct, commission, slippage) *)
NewEngine(initial_balance, position_size_pct, commission, slippage) ==
    /\ bt_pc = "idle"
    /\ last_direct = NoDirect
    /\ bt_config' = [commission |-> commission, slippage |-> slippage,
                     max_open_trades |-> 1,
                     position_size_pct |-> position_size_pct]
    /\ SetEngine(Engine(RInt(initial_balance), << >>, << >>, 0, << >>))
    /\ equity_curve' = << >>
    /\ UNCHANGED <<bt_pc, bt_df, bt_i, strategy_calls, result, bt_dates, rerun,
                   last_direct, notBtVars>>

(* engine.calculate_position_size(entry_price, stop_loss) *)
SizeCall(entry_price, stop_loss) ==
    /\ bt_pc = "idle"
    /\ last_direct.n < MaxDirectCalls
    /\ last_direct' =
           [n |-> last_direct.n + 1,
            op |-> "calculate_position_size",
            before |-> CurrentEngine,
            position_size_pct |-> bt_config.position_size_pct,
            entry_price |-> entry_price,
            stop_loss |-> stop_loss,
            ret |-> CalculatePositionSize(balance, bt_config.position_size_pct,
                                          entry_price, stop_loss)]
    /\ UNCHANGED <<bt_pc, bt_config, bt_df, bt_i, balance, trades, open_trades,
                   trade_counter, equity_curve, strategy_calls, close_log,
                   result, bt_dates, rerun, notBtVars>>

(* engine.open_trade(signal, current_time); ret is the id of the trade *)
(* returned, 0 for None                                                *)
OpenCall(signal, current_time) ==
    /\ bt_pc = "idle"
    /\ last_direct.n < MaxDirectCalls
    /\ LET e == OpenTrade(CurrentEngine, signal, current_time, bt_config)
       IN  /\ SetEngine(e)
           /\ last_direct' =
                  [n |-> last_direct.n + 1,
                   op |-> "open_trade",
                   before |-> CurrentEngine,
                   signal |-> signal,
                   ret |-> IF e.trade_counter = trade_counter THEN 0
                           ELSE e.trade_counter]
    /\ UNCHANGED <<bt_pc, bt_config, bt_df, bt_i, equity_curve, strategy_calls,
                   result, bt_dates, rerun, notBtVars>>

InitSizing ==
    /\ TypeInit
    /\ db_rows = << >>
    /\ constructed = FALSE
    /\ load_outcome = "none"
    /\ bt_config = BaseBtConfig

NextSizing ==
    \/ \E initial_balance \in InitialBalances, position_size_pct \in PositionSizePcts,
          commission \in Commissions, slippage \in Slippages :
              NewEngine(initial_balance, position_size_pct, commission, slippage)
    \/ \E entry_price \in SizingPrices, stop_loss \in SizingPrices :
          SizeCall(entry_price, stop_loss)
    \/ \E signal \in DirectSignals, current_time \in 1..MaxCandles :
          OpenCall(signal, current_time)

SpecSizing == InitSizing /\ [][NextSizing]_vars

---------------------------------------------------------------------------
(* The loop of start() as a specification *)

InitLoop ==
    /\ TypeInit
    /\ db_rows = << >>
    /\ constructed = FALSE
    /\ load_outcome = "none"
    /\ bt_config = BaseBtConfig

NextLoop ==
    \/ \E owner \in LoopOwners, max_iterations \in MaxIterationsChoices :
              LoopStart(owner, max_iterations)
    \/ \E connect_ok \in BOOLEAN : LoopConnect(connect_ok)
    \/ \E setup_ok \in BOOLEAN : LoopEnter(setup_ok)
    \/ WhileTest
    \/ IterationBegin
    \/ RunOnceEnter
    \/ FetchEnter
    \/ \E outcome \in FetchOutcomes : Fetch(outcome)
    \/ AfterRunOnce
    \/ WaitEnd
    \/ StopRequest

SpecLoop == InitLoop /\ [][NextLoop]_vars

---------------------------------------------------------------------------
(* Publishing as a specification *)

InitUnit ==
    /\ TypeInit
    /\ db_rows = << >>
    /\ constructed = FALSE
    /\ load_outcome = "none"
    /\ bt_config = BaseBtConfig

InitPublish == InitUnit

NextPublish ==
    \/ \E callback \in SubscriberPool : AddSubscriber(callback)
    \/ Publish

SpecPublish == InitPublish /\ [][NextPublish]_vars

---------------------------------------------------------------------------
(* The validator as a specification *)

InitValidator == InitUnit

NextValidator ==
    \/ ValTick
    \/ \E c \in ValidatorCandidates, age \in CandleAges,
             close \in ValidatorClosePrices :
          ValidateCall([time |-> val.now - age] @@ c, close)

SpecValidator == InitValidator /\ [][NextValidator]_vars

---------------------------------------------------------------------------
(* The strategy as a specification *)

InitStrategy == InitUnit

NextStrategy ==
    \/ \E by \in {"fresh", "service", "generator"}, trend_lookback \in TrendLookbacks :
          StrategyMake(by, trend_lookback)
    \/ \E rule_name \in RuleKeySet \cup {"momentum_equilibrium"}, enabled \in BOOLEAN :
          SetRuleEnabled(rule_name, enabled)
    \/ /\ strat.made # "none" /\ strat.last.n = 0
       /\ \E current_idx \in CandleIndexes, outcomes \in RuleOutcomes :
             /\ current_idx < Rule5Lookback =>
                    outcomes["rule_5_ath_breakout_retest"] = 0
             /\ \E directions \in RuleDirections(outcomes) :
                    Evaluate(current_idx, outcomes, directions)

SpecStrategy == InitStrategy /\ [][NextStrategy]_vars

---------------------------------------------------------------------------
(* The performance computations as a specification *)

InitMetrics == InitUnit

NextMetrics ==
    \/ \E is_open \in BOOLEAN, pnl \in PnlValues : AddTrade(is_open, pnl)
    \/ \E equity \in EquityValues : AddEquity(equity)
    \/ CalculateMetricsCall
    \/ GetPerformanceStatsCall

SpecMetrics == InitMetrics /\ [][NextMetrics]_vars

---------------------------------------------------------------------------
(* The workers of the multi-timeframe service and its stop, as a         *)
(* specification; a thread that was started is scheduled until it ends   *)

InitStopping == InitPipeline

NextStopping ==
    \/ Tick
    \/ \E w \in Workers : WorkerStart(w)
    \/ \E w \in Workers, feed_ok \in BOOLEAN : WorkerMakeGenerator(w, feed_ok)
    \/ \E w \in Workers : WorkerRun(w)
    \/ MultiStop

SpecStopping ==
    /\ InitStopping
    /\ [][NextStopping]_vars
    /\ \A w \in Workers :
          /\ WF_vars(\E feed_ok \in BOOLEAN : WorkerMakeGenerator(w, feed_ok))
          /\ WF_vars(WorkerRun(w))

---------------------------------------------------------------------------
(* The deduplication subscriber as a specification: a deduplicator built *)
(* without a store, called through DeduplicationSubscriber.__call__      *)

(* DeduplicationSubscriber.__call__(signal) *)
DedupSubscriberCall(w, s, fails) ==
    /\ constructed
    /\ ncalls < MaxForwards
    /\ LET res == IsDuplicateResult(recent_signals, s, now)
           fwd == IF res.ret = "True" THEN [called |-> << >>, ok |-> {}]
                  ELSE Forward(dsub.wrapped, fails, 1)
       IN  /\ recent_signals' = res.cache
           /\ Returned(w, s, res.ret)
           /\ dsub' = [dsub EXCEPT
                         !.ok_hashes = IF fwd.ok # {}
                                       THEN @ \cup {ToHash(Fingerprint(s))} ELSE @,
                         !.last = [n |-> ncalls + 1, wrapped |-> dsub.wrapped,
                                   called |-> fwd.called,
                                   ok |-> fwd.ok,
                                   known |-> ToHash(Fingerprint(s)) \in dsub.ok_hashes]]
    /\ UNCHANGED <<now, db_rows, constructed, built_at, load_outcome, wpc, wsig,
                   wfiltered, wcur, wdirty>>
    /\ UNCHANGED <<pipeVars, btVars, loop, unitVars, mstop, ta>>

(* DeduplicationSubscriber.add_subscriber(subscriber) *)
DedupAddSubscriber ==
    /\ dsub.wrapped < MaxWrapped
    /\ dsub' = [dsub EXCEPT !.wrapped = @ + 1]
    /\ UNCHANGED <<dedupVars, pipeVars, btVars, loop, unitVars, mstop, ta>>

(* DeduplicationSubscriber.remove_subscriber(subscriber), for one of the *)
(* wrapped subscribers; for any other list.remove raises ValueError and  *)
(* the list is unchanged                                                 *)
DedupRemoveSubscriber ==
    /\ dsub.wrapped > 0
    /\ dsub' = [dsub EXCEPT !.wrapped = @ - 1]
    /\ UNCHANGED <<dedupVars, pipeVars, btVars, loop, unitVars, mstop, ta>>

(* the signals handed to the deduplication subscriber at hour t: those *)
(* of the candle that closed at t                                      *)
ForwardedSignalsAt(w, t) == { s \in SignalsAt(w, t) : s.timestamp = t }

InitDedupSubscriber == InitDedup

NextDedupSubscriber ==
    \/ Tick
    \/ DedupAddSubscriber
    \/ DedupRemoveSubscriber
    \/ \E s \in ForwardedSignalsAt("w1", now), fails \in SUBSET (1..dsub.wrapped) :
          DedupSubscriberCall("w1", s, fails)

SpecDedupSubscriber == InitDedupSubscriber /\ [][NextDedupSubscriber]_vars

---------------------------------------------------------------------------
(* The technical analysis of one DataFrame as a specification *)

InitTechnical == InitUnit

NextTechnical ==
    \/ \E df \in BarSeries : TaCreate(df)
    \/ \E lookback \in SwingLookbacks, min_strength \in MinStrengths :
          TaDetectSwingPoints(lookback, min_strength)
    \/ \E lookback \in SwingLookbacks, min_strength \in MinStrengths :
          TaGetFibZones(lookback, min_strength)

SpecTechnical == InitTechnical /\ [][NextTechnical]_vars

---------------------------------------------------------------------------
(* A backtest without slippage whose strategy is the 50% rule *)

InitMomentumBacktest ==
    /\ InitBacktest
    /\ bt_config.slippage = 0

NextMomentumBacktest ==
    \/ \E series \in CandleSeries, dates \in DateRanges,
          max_open_trades \in MaxOpenTradesChoices :
              RunStart(series, dates, max_open_trades)
    \/ \E answer \in Rule6Signals \cup {NoCandidate} : ProcessCandle(answer)
    \/ RunFinish

SpecMomentumBacktest == InitMomentumBacktest /\ [][NextMomentumBacktest]_vars

---------------------------------------------------------------------------
(* Properties of the deduplicator *)

HashOf(s) == ToHash(Fingerprint(s))

(* the call at hour t falls inside the window that opened at hour ts *)
InWindow(ts, t) == t < ts + DedupWindowHours

(* same direction, same strategy, prices equal after rounding to cents *)
SameSetup(s1, s2) ==
    /\ s1.direction = s2.direction
    /\ s1.strategy_name = s2.strategy_name
    /\ Round2(s1.entry_price) = Round2(s2.entry_price)
    /\ Round2(s1.stop_loss) = Round2(s2.stop_loss)
    /\ Round2(s1.take_profit) = Round2(s2.take_profit)

(* C1: of the calls made at once on the shared deduplicator with one       *)
(* fingerprint inside its window, at most one returns False (is accepted). *)
C1_AtMostOneAccepted ==
    \A a1, a2 \in accepted :
        (a1.n < a2.n /\ HashOf(a1.sig) = HashOf(a2.sig))
            => ~InWindow(a1.sig.timestamp, a2.at)

(* C2: a call whose fingerprint is not cached returns False; a call returns *)
(* True exactly when a signal with the same fingerprint was accepted by an  *)
(* earlier call and the window has not elapsed since that call; once it    *)
(* has, the call returns False again.                                       *)
C2_FirstUniqueThenDuplicateUntilExpiry ==
    [][ncalls' = ncalls + 1 =>
          LET c == last_call'
              live == \E a \in accepted :
                          /\ HashOf(a.sig) = HashOf(c.sig)
                          /\ InWindow(a.at, c.at)
          IN  /\ c.ret \in {"True", "False"}
              /\ (HashOf(c.sig) \notin DOMAIN recent_signals) => c.ret = "False"
              /\ (c.ret = "True") <=> live
              /\ (c.ret = "False") => HashOf(c.sig) \in DOMAIN recent_signals'
      ]_vars

(* C3: two signals of one direction and strategy whose entry, stop and     *)
(* target agree after rounding to two decimals have the same fingerprint,  *)
(* whatever their timeframe, symbol, confidence or timestamp; the second,  *)
(* offered before the window has elapsed since the first was accepted, is  *)
(* reported as a duplicate.                                                *)
C3_SameSetupSameFingerprint ==
    last_call.ret # "none" =>
        \A a \in accepted :
            (a.n < last_call.n /\ SameSetup(a.sig, last_call.sig)) =>
                /\ HashOf(a.sig) = HashOf(last_call.sig)
                /\ InWindow(a.at, last_call.at) => last_call.ret = "True"

(* the readable rows of the store that carry the fingerprint of signal s *)
(* and were inside the window when the deduplicator was constructed      *)
PersistedInWindow(s) ==
    { r \in {db_rows[i] : i \in DOMAIN db_rows} :
        /\ ~r.bad
        /\ HashOf(r) = HashOf(s)
        /\ r.timestamp > built_at - DedupWindowHours }

(* C4: the store holds a signal that was inside the window when the       *)
(* deduplicator was constructed and is still inside it when the very first *)
(* is_duplicate call for the same fingerprint is made: the call returns    *)
(* True.                                                                   *)
C4_FirstCallAfterRestartIsDuplicate ==
    (/\ ncalls = 1
     /\ load_outcome = "ok"
     /\ \E r \in PersistedInWindow(last_call.sig) :
            InWindow(r.timestamp, last_call.at))
        => last_call.ret = "True"

(* C5: when loading fails at any point (no store configured, connection or *)
(* query error, a bad row part-way) the constructor returns normally and   *)
(* the cache is empty.                                                     *)
C5_FailedLoadLeavesCacheEmpty ==
    (constructed /\ ncalls = 0 /\ load_outcome \notin {"ok", "none"})
        => DOMAIN recent_signals = {}

---------------------------------------------------------------------------
(* Properties of the backtest simulator *)

ClosedStatuses == {"closed_tp", "closed_sl", "closed_manual"}

IsOpenId(k, open) == \E i \in DOMAIN open : open[i] = k

(* the candle of the run stamped with time t *)
CandleAt(t) == CHOOSE c \in {bt_df[j] : j \in DOMAIN bt_df} : c.time = t

(* the candle's range reaches both the stop and the target of the trade *)
ReachesBoth(trade, candle) ==
    /\ candle.low <= trade.stop_loss
    /\ trade.stop_loss <= candle.high
    /\ trade.take_profit # 0
    /\ candle.low <= trade.take_profit
    /\ trade.take_profit <= candle.high

(* C7: during a run a trade changes status at most once, from open to one *)
(* of closed_tp, closed_sl, closed_manual; once closed its status, exit   *)
(* price, exit time and pnl never change and it is never in the open set  *)
(* again.                                                                 *)
C7_TradeClosesOnce ==
    [][bt_pc = "loop" =>
          \A k \in DOMAIN trades :
              /\ k \in DOMAIN trades'
              /\ trades[k].status \in {"open"} \cup ClosedStatuses
              /\ (trades[k].status = "open") <=> IsOpenId(k, open_trades)
              /\ trades[k].status = "open" =>
                     trades'[k].status \in {"open"} \cup ClosedStatuses
              /\ trades[k].status # "open" =>
                     /\ trades'[k].status = trades[k].status
                     /\ trades'[k].exit_price = trades[k].exit_price
                     /\ trades'[k].exit_time = trades[k].exit_time
                     /\ trades'[k].pnl = trades[k].pnl
                     /\ ~IsOpenId(k, open_trades')
      ]_vars

(* a run that closed one trade at its target, one at its stop and one at *)
(* the end, the first of them before the last candle                     *)
C7_Witness ==
    /\ bt_pc = "done"
    /\ {trades[k].status : k \in DOMAIN trades} = ClosedStatuses
    /\ \E k \in DOMAIN trades :
           /\ trades[k].status = "closed_tp"
           /\ trades[k].exit_time < bt_df[Len(bt_df)].time

(* C8: when the exits are checked on a candle whose range reaches both the *)
(* stop and the target of an open trade, long or short, the trade closes   *)
(* on that candle with status closed_sl at the stop moved by the slippage  *)
(* against the trade.                                                      *)
C8_StopWinsOverTarget ==
    [][bt_i' = bt_i + 1 =>
          \A i \in DOMAIN open_trades :
              LET k == open_trades[i]
                  candle == bt_df[bt_i + 1]
              IN  ReachesBoth(trades[k], candle) =>
                      /\ trades'[k].status = "closed_sl"
                      /\ trades'[k].exit_time = candle.time
                      /\ trades'[k].exit_price =
                             IF trades[k].direction = "long"
                             THEN trades[k].stop_loss - bt_config.slippage
                             ELSE trades[k].stop_loss + bt_config.slippage
                      /\ ~IsOpenId(k, open_trades')
      ]_vars

(* a long and a short trade, each stopped on a candle that also reached *)
(* its target, with slippage                                            *)
C8_Witness ==
    /\ bt_config.slippage = 1
    /\ \E k1, k2 \in DOMAIN trades :
           /\ trades[k1].direction = "long"
           /\ trades[k2].direction = "short"
           /\ \A k \in {k1, k2} :
                  /\ trades[k].status = "closed_sl"
                  /\ trades[k].exit_time > trades[k].entry_time
                  /\ ReachesBoth(trades[k], CandleAt(trades[k].exit_time))

(* C9: for every close of a run, whatever its status, the balance right *)
(* after equals the balance right before plus the pnl of the trade      *)
(* minus the commission.                                                *)
C9_BalanceAfterClose ==
    \A i \in DOMAIN close_log :
        close_log[i].after =
            RSub(RAdd(close_log[i].before, close_log[i].pnl),
                 RInt(bt_config.commission))

(* C10: when run returns the open set is empty, no trade has status open, *)
(* and every trade not closed by its stop or target was closed at the     *)
(* last candle, at its close price, with status closed_manual.            *)
C10_NoOpenTradeAtReturn ==
    bt_pc = "done" =>
        /\ open_trades = << >>
        /\ \A k \in DOMAIN trades :
               /\ trades[k].status \in ClosedStatuses
               /\ trades[k].status \notin {"closed_tp", "closed_sl"} =>
                      /\ trades[k].status = "closed_manual"
                      /\ trades[k].exit_price = bt_df[Len(bt_df)].close
                      /\ trades[k].exit_time = bt_df[Len(bt_df)].time

(* a run that ends with two trades open, after a third was stopped *)
C10_Witness ==
    /\ bt_pc = "done"
    /\ Cardinality({k \in DOMAIN trades : trades[k].status = "closed_manual"}) = 2
    /\ \E k \in DOMAIN trades : trades[k].status = "closed_sl"
    /\ result.total_trades = 3

(* the open trades that the exit check of the candle leaves open *)
StillOpen(candle) ==
    LET Stays(k) == ExitOf(trades[k], candle, bt_config.slippage) = NoExit
    IN  SelectSeq(open_trades, Stays)

(* C11: at every point of a run the number of open trades is at most     *)
(* max_open_trades, and the strategy is not queried on a candle on which *)
(* that number is already reached after the exits.                       *)
C11_OpenTradesWithinLimit ==
    [][bt_pc = "loop" =>
          /\ Len(open_trades) <= bt_config.max_open_trades
          /\ Len(open_trades') <= bt_config.max_open_trades
          /\ bt_i' = bt_i + 1 =>
                 LET candle == bt_df[bt_i + 1]
                 IN  Len(StillOpen(candle)) >= bt_config.max_open_trades =>
                         /\ candle.time \notin strategy_calls'
                         /\ trade_counter' = trade_counter
      ]_vars

(* two trades are open with a limit of two, and the candle just processed *)
(* was passed without a call of the strategy                              *)
C11_Witness ==
    /\ bt_pc = "loop"
    /\ bt_i >= 2
    /\ bt_config.max_open_trades = 2
    /\ Len(open_trades) = 2
    /\ bt_df[bt_i].time \notin strategy_calls
    /\ bt_df[bt_i - 1].time \in strategy_calls

(* C12: on every candle the exits of the trades opened on earlier candles *)
(* are checked first, then the equity point is appended, then the        *)
(* strategy is asked for at most one candidate: a trade opened on candle *)
(* i is not exit-checked before candle i+1, and a slot freed by an exit  *)
(* on candle i is offered to the strategy on candle i.                   *)
C12_ExitsThenEquityThenEntry ==
    [][(bt_pc = "loop" /\ bt_i' = bt_i + 1) =>
          LET candle == bt_df[bt_i + 1]
          IN  /\ Len(equity_curve') = Len(equity_curve) + 1
              /\ Len(trades') <= Len(trades) + 1
              /\ \A k \in DOMAIN trades :
                     (trades[k].status = "open" /\ trades'[k].status # "open") =>
                         /\ trades[k].entry_time < candle.time
                         /\ trades'[k].exit_time = candle.time
              /\ \A k \in DOMAIN trades' \ DOMAIN trades :
                     /\ trades'[k].entry_time = candle.time
                     /\ trades'[k].status = "open"
                     /\ IsOpenId(k, open_trades')
              /\ Len(StillOpen(candle)) < bt_config.max_open_trades =>
                     candle.time \in strategy_calls'
      ]_vars

(* with a limit of one, a trade was closed by the exit check of a candle  *)
(* and the next trade was opened on that same candle, whose range reaches *)
(* the stop of the new trade, which is still open                         *)
C12_Witness ==
    /\ bt_pc = "loop"
    /\ bt_config.max_open_trades = 1
    /\ \E k \in DOMAIN trades :
           /\ k + 1 \in DOMAIN trades
           /\ trades[k].status \in {"closed_sl", "closed_tp"}
           /\ trades[k + 1].entry_time = trades[k].exit_time
           /\ trades[k + 1].status = "open"
           /\ bt_df[bt_i].time = trades[k + 1].entry_time
           /\ ExitOf(trades[k + 1], bt_df[bt_i], bt_config.slippage) # NoExit

(* C13: after candle i is processed the equity curve has i+1 points, and *)
(* point i is the realized balance after the exits of candle i plus the  *)
(* unrealized P&L, at the close of candle i, of the trades still open    *)
(* then; a trade opened on candle i is not part of it.                   *)
C13_EquityPointPerCandle ==
    [][bt_pc = "loop" =>
          /\ Len(equity_curve) = bt_i
          /\ bt_i' = bt_i + 1 =>
                 LET candle == bt_df[bt_i + 1]
                     realized == IF Len(close_log') > Len(close_log)
                                 THEN close_log'[Len(close_log')].after
                                 ELSE balance
                 IN  /\ Len(equity_curve') = bt_i + 1
                     /\ equity_curve'[bt_i + 1] =
                            RAdd(realized,
                                 OpenPnl(trades, StillOpen(candle), candle.close))
      ]_vars

(* on the candle just processed one trade was closed, an older one stayed *)
(* open with a P&L that is not zero, and a new one was opened away from   *)
(* the close of the candle                                                *)
C13_Witness ==
    /\ bt_pc = "loop"
    /\ bt_i >= 2
    /\ Len(equity_curve) = bt_i
    /\ equity_curve[bt_i] # balance
    /\ \E k1, k2, k3 \in DOMAIN trades :
           /\ trades[k1].status \in {"closed_sl", "closed_tp"}
           /\ trades[k1].exit_time = bt_df[bt_i].time
           /\ trades[k2].status = "open"
           /\ trades[k2].entry_time < bt_df[bt_i].time
           /\ trades[k2].entry_price # bt_df[bt_i].close
           /\ trades[k3].status = "open"
           /\ trades[k3].entry_time = bt_df[bt_i].time
           /\ trades[k3].entry_price # bt_df[bt_i].close

(* the sum of the pnl of the trades of a list *)
RECURSIVE SumPnl(_)
SumPnl(trs) ==
    IF trs = << >> THEN RInt(0)
    ELSE RAdd(trs[1].pnl, SumPnl(Tail(trs)))

(* C14: with zero commission the final balance of a run is the initial *)
(* balance plus the sum of the pnl of all trades in the result.        *)
C14_FinalBalanceIsSumOfPnl ==
    (bt_pc = "done" /\ bt_config.commission = 0) =>
        /\ result.trades = trades
        /\ result.final_balance = balance
        /\ result.final_balance =
               RAdd(result.initial_balance, SumPnl(result.trades))

(* a run without commission, with slippage, that closed a winning trade at *)
(* its target, a losing one at its stop and a third at the end             *)
C14_Witness ==
    /\ bt_pc = "done"
    /\ bt_config.commission = 0
    /\ bt_config.slippage = 1
    /\ result.final_balance # result.initial_balance
    /\ \E k1, k2, k3 \in DOMAIN result.trades :
           /\ result.trades[k1].status = "closed_tp"
           /\ RLt(RInt(0), result.trades[k1].pnl)
           /\ result.trades[k2].status = "closed_sl"
           /\ RLt(result.trades[k2].pnl, RInt(0))
           /\ result.trades[k3].status = "closed_manual"
           /\ result.trades[k3].pnl # RInt(0)

(* the entry price open_trade uses: the signal's entry moved by the slippage *)
EntryWithSlippage(signal) ==
    IF signal.direction = "long"
    THEN signal.entry_price + bt_config.slippage
    ELSE signal.entry_price - bt_config.slippage

(* C15: when the computed position size is zero or negative, as when the *)
(* entry equals the stop, open_trade opens nothing and leaves the        *)
(* balance, the trade counter, the trade list and the open set as they   *)
(* were.                                                                 *)
C15_ZeroSizeOpensNothing ==
    last_direct.op = "open_trade" =>
        LET before == last_direct.before
            size == CalculatePositionSize(before.balance,
                                          bt_config.position_size_pct,
                                          EntryWithSlippage(last_direct.signal),
                                          last_direct.signal.stop_loss)
        IN  /\ EntryWithSlippage(last_direct.signal) = last_direct.signal.stop_loss
                   => RLe(size, RInt(0))
            /\ RLe(size, RInt(0)) =>
                   /\ last_direct.ret = 0
                   /\ balance = before.balance
                   /\ trade_counter = before.trade_counter
                   /\ trades = before.trades
                   /\ open_trades = before.open_trades

(* with commission and slippage, a trade is open, and open_trade is then  *)
(* called with a signal whose entry, moved by the slippage, is its stop   *)
C15_Witness ==
    /\ last_direct.op = "open_trade"
    /\ last_direct.n = 2
    /\ bt_config.commission = 1
    /\ bt_config.slippage = 1
    /\ last_direct.signal.entry_price # last_direct.signal.stop_loss
    /\ EntryWithSlippage(last_direct.signal) = last_direct.signal.stop_loss
    /\ last_direct.ret = 0
    /\ Len(trades) = 1
    /\ trade_counter = 1

(* C16: for every entry different from the stop, calculate_position_size *)
(* returns (balance at the call * position_size_pct / 100) divided by    *)
(* |entry - stop|; it returns 20 for balance 10000, 2 %, entry 2000 and  *)
(* stop 1990.                                                            *)
C16_PositionSizeFormula ==
    last_direct.op = "calculate_position_size" =>
        LET c == last_direct
            distance == IF c.entry_price >= c.stop_loss
                        THEN c.entry_price - c.stop_loss
                        ELSE c.stop_loss - c.entry_price
        IN  /\ c.before.balance = balance
            /\ c.entry_price # c.stop_loss =>
                   RMul(c.ret, RInt(distance * 100)) =
                       RMul(balance, RInt(c.position_size_pct))
            /\ (/\ balance = RInt(10000)
                /\ c.position_size_pct = 2
                /\ c.entry_price = 2000
                /\ c.stop_loss = 1990) => c.ret = RInt(20)

(* the call of the example, and it returned 20 *)
C16_Witness ==
    /\ last_direct.op = "calculate_position_size"
    /\ balance = RInt(10000)
    /\ last_direct.position_size_pct = 2
    /\ last_direct.entry_price = 2000
    /\ last_direct.stop_loss = 1990
    /\ last_direct.ret = RInt(20)

(* C17: a second run of the same engine object on the same candles, with *)
(* the same parameters and a strategy that answers as in the first run,  *)
(* returns the same trades, final balance and equity curve (or raises as *)
(* the first did); every run starts its loop from the reset state:       *)
(* initial balance, no trades, no open trades, counter 0, empty curve.   *)
C17_RerunIsIdentical ==
    /\ (bt_pc = "loop" /\ bt_i = 0) =>
           /\ balance = RInt(EngineConfig.initial_balance)
           /\ trades = << >>
           /\ open_trades = << >>
           /\ trade_counter = 0
           /\ equity_curve = << >>
    /\ (rerun.n = 2 /\ bt_pc = "error") => rerun.first = [raised |-> TRUE]
    /\ (rerun.n = 2 /\ bt_pc = "done") =>
           /\ result.trades = rerun.first.trades
           /\ result.final_balance = rerun.first.final_balance
           /\ result.equity_curve = rerun.first.equity_curve
           /\ result = rerun.first

(* the second run of an engine has returned; the first one had paid *)
(* commissions, ended away from the initial balance and left three  *)
(* trades, so that the engine was not in its reset state            *)
C17_Witness ==
    /\ rerun.n = 2
    /\ bt_pc = "done"
    /\ bt_config.commission = 1
    /\ Len(rerun.first.trades) = 3
    /\ rerun.first.final_balance # rerun.first.initial_balance
    /\ Len(result.equity_curve) = 3

(* C18: whenever the date range is empty after filtering or has zero *)
(* width, run raises an error and returns no result, before any call *)
(* of the strategy and before any trade is opened.                   *)
C18_EmptyOrZeroWidthRaises ==
    LET zero_width == bt_dates[1] # 0 /\ bt_dates[1] = bt_dates[2]
    IN  (bt_pc # "idle" /\ (bt_df = << >> \/ zero_width)) =>
            /\ bt_pc = "error"
            /\ result = NoResult
            /\ strategy_calls = {}
            /\ trades = << >>

---------------------------------------------------------------------------
(* Properties of the loop of start() *)

(* C19: when fetching candles fails in an iteration of the loop, the    *)
(* worker keeps running: the loop is not left, is_running stays set and *)
(* the feed stays connected for the next poll.                          *)
C19_FetchFailureKeepsWorkerRunning ==
    (loop.last_fetch \in {"empty", "raised"} /\ ~loop.stop_requested
        /\ loop.ended_why # "limit") =>
            /\ loop.pc # "ended"
            /\ loop.is_running
            /\ loop.is_connected

(* C20: a stop request takes effect between iterations only: while an  *)
(* iteration is in progress the feed is connected, an iteration that   *)
(* was in progress at the request is not cut short by an error, and no *)
(* iteration starts after the request.                                 *)
C20_StopOnlyBetweenIterations ==
    /\ loop.pc \in {"run_once", "fetch", "history"} => loop.is_connected
    /\ loop.stop_requested =>
           /\ loop.last_fetch # "not_connected"
           /\ loop.iteration = loop.stop_iteration

---------------------------------------------------------------------------
(* Properties of publishing *)

(* C21: an exception raised by a subscriber while a signal is published   *)
(* does not come out of run_once and does not keep the subscribers after  *)
(* it from being called, whatever kind of callable the subscriber is.     *)
C21_SubscriberFailureIsContained ==
    pub.outcome # "none" =>
        /\ pub.outcome = "returned"
        /\ pub.called = DOMAIN pub.subscribers

---------------------------------------------------------------------------
(* Properties of the validator *)

(* reward and risk of a candidate or of a signal, by its direction *)
RiskOf(c) ==
    IF c.direction = "LONG" THEN c.entry_price - c.stop_loss
                            ELSE c.stop_loss - c.entry_price

RewardOf(c) ==
    IF c.direction = "LONG" THEN c.take_profit - c.entry_price
                            ELSE c.entry_price - c.take_profit

WellFormed(c) ==
    /\ c.entry_price > 0
    /\ c.stop_loss > 0
    /\ c.take_profit > 0
    /\ RiskOf(c) > 0
    /\ RewardOf(c) > 0
    /\ 2 * RewardOf(c) >= 3 * RiskOf(c)

(* C22: a signal returned by validate has positive entry, stop and target, *)
(* the stop and the target on the right sides of the entry for its         *)
(* direction, and reward to risk of at least 1.5; for a candidate with an  *)
(* entry, a stop and a target that fails any of these validate returns     *)
(* None.  validate is left by an exception only for a candidate without a  *)
(* target, which no rule of GoldStrategy returns.                          *)
C22_ValidatedSignalIsWellFormed ==
    val.last.n > 0 =>
        /\ val.last.ok => WellFormed(val.last.sig)
        /\ (val.last.candidate.take_profit # NoTarget
                /\ ~WellFormed(val.last.candidate))
              => (~val.last.ok /\ ~val.last.raised)
        /\ val.last.raised => val.last.candidate.take_profit = NoTarget
        /\ \A s \in val.accepted : WellFormed(s)

(* a signal was accepted at exactly the minimum ratio and a candidate just *)
(* under it was rejected for its ratio                                     *)
C22_Witness ==
    /\ val.last.n > 0
    /\ ~val.last.ok
    /\ ~val.last.raised
    /\ val.last.why = "rr"
    /\ 2 * RewardOf(val.last.candidate) < 3 * RiskOf(val.last.candidate)
    /\ \E s \in val.accepted : 2 * RewardOf(s) = 3 * RiskOf(s)

(* C23: validate rejects a candidate whenever the validator accepted a     *)
(* signal of the same direction within the configured lookback before the  *)
(* candidate's time, whatever the sequence of candidates, candles replayed  *)
(* from the past included.                                                  *)
C23_DuplicateWithinLookbackRejected ==
    val.last.n > 0 =>
        LET c == val.last.candidate
        IN  (\E s \in val.last.accepted_before :
                /\ s.direction = c.direction
                /\ s.timestamp > c.time - DuplicateWindowHours
                /\ s.timestamp <= c.time)
            => ~val.last.ok

---------------------------------------------------------------------------
(* Properties of the strategy *)

(* the enabled rules that triggered in the last call of evaluate *)
Triggered ==
    { k \in RuleKeySet : /\ RuleEnabled(strat.rules_enabled, k)
                         /\ strat.last.outcomes[k] > 0 }

EnoughHistory ==
    /\ strat.last.current_idx >= strat.trend_lookback
    /\ strat.last.current_idx >= 60

(* C24: evaluate returns no signal and runs no rule when the candle index *)
(* is below max(trend_lookback, 60).                                      *)
C24_TooFewCandlesNoSignal ==
    (strat.last.n > 0 /\ ~EnoughHistory) =>
        /\ strat.last.signal = NoCandidate
        /\ strat.last.ran = {}

(* index 59 with the default lookback, every rule enabled and every rule *)
(* that can trigger there triggering                                     *)
C24_Witness ==
    /\ strat.last.n > 0
    /\ strat.trend_lookback = 50
    /\ strat.last.current_idx = 59
    /\ \A k \in RuleKeySet : RuleEnabled(strat.rules_enabled, k)
    /\ \A k \in RuleKeySet \ {"rule_5_ath_breakout_retest"} :
          strat.last.outcomes[k] > 0
    /\ strat.last.signal = NoCandidate

(* C25: when one or more enabled rules trigger, evaluate returns one    *)
(* signal, of an enabled rule that triggered (with the direction that   *)
(* rule answered), whose confidence is the greatest among the triggered *)
(* candidates; when none triggers it returns no signal.                 *)
C25_BestTriggeredRuleWins ==
    (strat.last.n > 0 /\ EnoughHistory) =>
        IF Triggered = {}
        THEN strat.last.signal = NoCandidate
        ELSE /\ strat.last.signal # NoCandidate
             /\ strat.last.signal.rule \in Triggered
             /\ strat.last.signal.direction =
                    strat.last.directions[strat.last.signal.rule]
             /\ strat.last.signal.confidence = strat.last.outcomes[strat.last.signal.rule]
             /\ \A k \in Triggered :
                   strat.last.outcomes[k] <= strat.last.signal.confidence

(* the first rule triggers, LONG, at 0.7999999999999999 and loses to a *)
(* later one that answers SHORT at 0.8, while a disabled rule would     *)
(* have triggered too                                                   *)
C25_Witness ==
    /\ strat.last.n > 0
    /\ EnoughHistory
    /\ "rule_1_618_retracement" \in Triggered
    /\ strat.last.outcomes["rule_1_618_retracement"] = 7999
    /\ strat.last.directions["rule_1_618_retracement"] = "LONG"
    /\ strat.last.signal # NoCandidate
    /\ strat.last.signal.confidence = 8000
    /\ strat.last.signal.direction = "SHORT"
    /\ \E k \in RuleKeySet \ Triggered : strat.last.outcomes[k] > 0

(* C26: a freshly constructed GoldStrategy has rules 1, 5 and 6 enabled  *)
(* and no entry in rules_enabled for rules 2, 3 and 4.                   *)
C26_OnlyProfitableRulesEnabled ==
    (strat.made = "fresh" /\ strat.changes = 0) =>
        /\ \A k \in {"rule_1_618_retracement", "rule_5_ath_breakout_retest",
                     "rule_6_50_momentum"} :
              k \in DOMAIN strat.rules_enabled /\ strat.rules_enabled[k]
        /\ \A k \in {"rule_2_786_deep_discount", "rule_3_236_shallow_pullback",
                     "rule_4_consolidation_break"} :
              k \notin DOMAIN strat.rules_enabled

(* C27: the strategy of the signal service, and of a generator that was   *)
(* given none, runs the Momentum Equilibrium rule and no other on every   *)
(* candle with enough history.                                            *)
C27_ServiceRunsMomentumEquilibriumOnly ==
    (/\ strat.made \in {"service", "generator"}
     /\ strat.changes = 0
     /\ strat.last.n > 0
     /\ EnoughHistory)
    => strat.last.ran = {"rule_6_50_momentum"}

---------------------------------------------------------------------------
(* Properties of the performance computations *)

ClosedTrades == { k \in DOMAIN perf.trades : perf.trades[k].status # "open" }

(* no closed trade lost money *)
GrossLossZero == \A k \in ClosedTrades : perf.trades[k].pnl[1] >= 0

(* C28: when the gross loss is zero the profit factor that is reported  *)
(* follows one convention, the same in every performance computation:    *)
(* the backtest result and the statistics of the store report the same   *)
(* value for the same closed trades.                                     *)
C28_ProfitFactorOneConvention ==
    (/\ perf.metrics # NoMetrics
     /\ perf.stats # NoMetrics
     /\ GrossLossZero)
    => perf.metrics.profit_factor = perf.stats.profit_factor

(* C29: after calculate_metrics the winning and the losing trades add up *)
(* to total_trades, which is the number of closed trades; a pnl of       *)
(* exactly 0 counts as losing; win_rate is 100 * winning / total, from 0 *)
(* to 100, and 0 when no trade is closed.                                *)
C29_CountsAndWinRate ==
    perf.metrics # NoMetrics =>
        LET m == perf.metrics
        IN  /\ m.total_trades = Cardinality(ClosedTrades)
            /\ m.winning_trades + m.losing_trades = m.total_trades
            /\ m.losing_trades =
                   Cardinality({ k \in ClosedTrades : perf.trades[k].pnl[1] <= 0 })
            /\ m.win_rate[1] * m.total_trades = 100 * m.winning_trades * m.win_rate[2]
            /\ m.total_trades = 0 => m.win_rate = <<0, 1>>
            /\ 0 <= m.win_rate[1]
            /\ m.win_rate[1] <= 100 * m.win_rate[2]

(* a winner, a trade closed at exactly 0 and an open trade *)
C29_Witness ==
    /\ perf.metrics # NoMetrics
    /\ \E k \in ClosedTrades : perf.trades[k].pnl = <<0, 1>>
    /\ \E k \in ClosedTrades : perf.trades[k].pnl[1] > 0
    /\ \E k \in DOMAIN perf.trades : perf.trades[k].status = "open"
    /\ perf.metrics.winning_trades = 1
    /\ perf.metrics.losing_trades = 1
    /\ perf.metrics.win_rate = <<50, 1>>

(* C30: max_drawdown is the largest decline of the equity curve from its *)
(* running peak, and max_drawdown_pct is that decline as a percentage of *)
(* the running peak from which it fell.                                  *)
C30_DrawdownFromRunningPeak ==
    (/\ perf.metrics # NoMetrics
     /\ perf.metrics.total_trades > 0
     /\ perf.equity_curve # << >>)
    => \E i, j \in DOMAIN perf.equity_curve :
          LET peak == perf.equity_curve[i][1]
              drop == peak - perf.equity_curve[j][1]
          IN  /\ i <= j
              /\ \A h \in 1..j : perf.equity_curve[h][1] <= peak
              /\ \A a, b \in DOMAIN perf.equity_curve :
                    a <= b => perf.equity_curve[a][1] - perf.equity_curve[b][1] <= drop
              /\ perf.metrics.max_drawdown = <<drop, 1>>
              /\ perf.metrics.max_drawdown_pct[1] * peak
                     = 100 * drop * perf.metrics.max_drawdown_pct[2]

---------------------------------------------------------------------------
(* Properties of the deduplicator: suppressed duplicates *)

(* the accepted calls with the hash h, before call number n *)
AcceptedBefore(h, n) == { a \in accepted : HashOf(a.sig) = h /\ a.n < n }

(* C38: a suppressed duplicate does not extend the window: the entry of a  *)
(* fingerprint keeps the timestamp of the signal that was accepted, and a  *)
(* call made once the window has elapsed since the last acceptance of its  *)
(* fingerprint is accepted, however many duplicates came in between.       *)
C38_DuplicateDoesNotExtendWindow ==
    /\ \A h \in DOMAIN recent_signals :
          \E a \in accepted :
              /\ HashOf(a.sig) = h
              /\ recent_signals[h] = Fingerprint(a.sig)
              /\ \A b \in accepted : HashOf(b.sig) = h => b.n <= a.n
    /\ last_call.n > 0 =>
          \A a \in AcceptedBefore(HashOf(last_call.sig), last_call.n) :
              ((\A b \in AcceptedBefore(HashOf(last_call.sig), last_call.n) : b.n <= a.n)
               /\ last_call.at >= a.at + DedupWindowHours)
              => last_call.ret = "False"

(* accepted first, suppressed at the second call (the only accepted call *)
(* so far has its fingerprint), and accepted again at the third, made    *)
(* exactly one window after the first                                    *)
C38_Witness ==
    /\ last_call.n = 3
    /\ last_call.ret = "False"
    /\ Cardinality(accepted) = 2
    /\ \E a \in accepted :
          /\ a.n = 1
          /\ HashOf(a.sig) = HashOf(last_call.sig)
          /\ a.sig.timestamp = a.at
          /\ last_call.at = a.at + DedupWindowHours
          /\ last_call.sig.timestamp = last_call.at

---------------------------------------------------------------------------
(* Properties of the loop of start(): the iteration limit *)

(* C34: for every n >= 0, start(max_iterations=n) performs at most n      *)
(* iterations of run_once and then returns with is_running false and the  *)
(* data feed disconnected.                                                *)
C34_AtMostMaxIterations ==
    loop.owner # "none" =>
        /\ loop.iteration <= loop.max_iterations
        /\ loop.pc = "ended" => (~loop.is_running /\ ~loop.is_connected)

---------------------------------------------------------------------------
(* Properties of MultiTimeframeService.stop *)

(* After MultiTimeframeService.stop() has returned no worker is in the   *)
(* loop of its generator and every worker thread that stop() found       *)
(* initialising comes to its end.  No worker thread reaches              *)
(* generator.start(), so that the formula says nothing of a worker that  *)
(* iterates or waits for a candle close.                                 *)
WorkersEndAfterStop ==
    /\ [](mstop.returned => \A w \in Workers : owner_state[w] # "running")
    /\ \A w \in Workers :
          (mstop.returned /\ owner_state[w] = "started") ~> (owner_state[w] = "failed")

---------------------------------------------------------------------------
(* Properties of the deduplication subscriber *)

(* C33: a signal the deduplicator reports unique is forwarded exactly    *)
(* once to every wrapped subscriber, also when some of them raise; a     *)
(* duplicate within the window is forwarded to none.                     *)
C33_ForwardedOnceToAllOrNone ==
    (dsub.last.n > 0 /\ dsub.last.n = last_call.n) =>
        IF last_call.ret = "False"
        THEN /\ Len(dsub.last.called) = dsub.last.wrapped
             /\ \A i \in 1..dsub.last.wrapped : dsub.last.called[i] = i
        ELSE dsub.last.called = << >>

(* a unique signal reached both subscribers although the first raised *)
C33_Witness ==
    /\ dsub.last.wrapped = 2
    /\ dsub.last.n > 0
    /\ last_call.ret = "False"
    /\ dsub.last.called = <<1, 2>>
    /\ dsub.last.ok = {2}

(* C37: a fingerprint is recorded in the deduplicator only for a signal   *)
(* that at least one wrapped subscriber took without error; a signal      *)
(* whose delivery failed for every subscriber is not suppressed when it   *)
(* is offered again within the window.                                    *)
C37_RecordedOnlyIfDelivered ==
    /\ \A h \in DOMAIN recent_signals : h \in dsub.ok_hashes
    /\ (dsub.last.n > 0 /\ dsub.last.n = last_call.n /\ ~dsub.last.known)
           => last_call.ret = "False"

---------------------------------------------------------------------------
(* Properties of the technical analysis *)

(* the comparisons of bar k, out of lookback, that its high or low wins *)
(* on both sides                                                        *)
Confirmations(df, k, lookback, is_high) ==
    Cardinality({ j \in 1..lookback : Confirms(df, k, j, is_high) })

Marked(k, is_high) ==
    \E n \in DOMAIN ta.swings :
        ta.swings[n].index = k /\ ta.swings[n].is_high = is_high

(* C31: detect_swing_points marks bar k as a swing high exactly when its *)
(* high exceeds the highs of the lookback bars on each side in at least  *)
(* min_strength of the lookback comparisons (mirror rule for the swing   *)
(* lows), and marks no bar closer than lookback bars to either end.      *)
C31_SwingMarkedIffMinStrength ==
    ta.op = "detect" =>
        \A k \in DOMAIN ta.df : \A is_high \in BOOLEAN :
            Marked(k, is_high) <=>
                /\ k > ta.lookback
                /\ k <= Len(ta.df) - ta.lookback
                /\ Confirmations(ta.df, k, ta.lookback, is_high) >= ta.min_strength

(* what holds of the code: every one of the lookback comparisons is won *)
(* and lookback is at least min_strength                                *)
SwingMarkedIffAllConfirm ==
    ta.op = "detect" =>
        \A k \in DOMAIN ta.df : \A is_high \in BOOLEAN :
            Marked(k, is_high) <=>
                /\ k > ta.lookback
                /\ k <= Len(ta.df) - ta.lookback
                /\ Confirmations(ta.df, k, ta.lookback, is_high) = ta.lookback
                /\ ta.lookback >= ta.min_strength

(* C32: in every Fibonacci zone built from the most recent swing high  *)
(* and swing low the levels are strictly ordered, swing_low < 78.6% <  *)
(* 61.8% < 50% < 38.2% < 23.6% < swing_high, whichever swing came last. *)
C32_FibLevelsStrictlyOrdered ==
    (ta.op = "fib" /\ ta.fib # NoFib) =>
        /\ ta.fib.swing_low < ta.fib.level_786
        /\ ta.fib.level_786 < ta.fib.level_618
        /\ ta.fib.level_618 < ta.fib.level_500
        /\ ta.fib.level_500 < ta.fib.level_382
        /\ ta.fib.level_382 < ta.fib.level_236
        /\ ta.fib.level_236 < ta.fib.swing_high

---------------------------------------------------------------------------
(* Properties of the backtest of the 50% rule *)

(* C36: without slippage, whatever signal the strategy returns, a trade *)
(* closed at its stop never has a positive pnl and a trade closed at    *)
(* its target never has a negative pnl.                                 *)
C36_StopNeverWinsTargetNeverLoses ==
    bt_config.slippage = 0 =>
        \A i \in DOMAIN trades :
            /\ trades[i].status = "closed_sl" => RLe(trades[i].pnl, RInt(0))
            /\ trades[i].status = "closed_tp" => RLe(RInt(0), trades[i].pnl)

====
